---- MODULE Spec2Model ----
(***************************************************************************)
(* Persona dispatcher of persona-manager-mcp: task analysis, persona       *)
(* scoring, context boosting, confidence-gated persona generation, the     *)
(* persona catalog and the dispatcher's analytics state.                   *)
(*                                                                         *)
(* Texts are modelled as sequences of lower-case words; punctuation is     *)
(* dropped.  "keyword in text" (Python substring test) is the occurrence   *)
(* of the keyword as a word of the text: over the vocabulary used here no  *)
(* table keyword is a proper substring of a word, and multi-word keywords  *)
(* never occur.                                                            *)
(*                                                                         *)
(* Scores are fixed-point numbers.  A sub-score is an integer in units of  *)
(* 1/SUB, a weight is an integer number of fortieths, so a weighted score  *)
(* is an integer in units of 1/ONE with ONE = 40 * SUB; every weighted     *)
(* score is even, which makes the 1.5 boost exact.                         *)
(***************************************************************************)
EXTENDS Integers, Sequences, FiniteSets, TLC

VARIABLES
    catalog,                  \* PersonaStorage: personas.json, id -> record
    task_history,             \* PersonaDispatcher.task_history
    persona_usage_stats,      \* PersonaDispatcher.persona_usage_stats
    feedback_history,         \* PersonaDispatcher.feedback_history
    performance_metrics,      \* PersonaDispatcher.performance_metrics
    auto_generation_enabled,  \* PersonaDispatcher.auto_generation_enabled
    confidence_threshold,     \* PersonaDispatcher.confidence_threshold
    project_name,             \* ContextIntegration.project_name
    cache,                    \* ContextIntegration.cache
    now,                      \* wall clock, seconds (datetime.now())
    last,                     \* outcome of the most recent operation
    probe                     \* input and output of a pure function under test

vars == << catalog, task_history, persona_usage_stats, feedback_history,
           performance_metrics, auto_generation_enabled, confidence_threshold,
           project_name, cache, now, last, probe >>

----------------------------------------------------------------------------
(* Bounds of the model                                                     *)

MaxTaskWords == 2      \* words in a task description
MaxHistory == 1        \* selections logged in task_history
MaxFeedback == 1       \* entries in feedback_history
MaxGenerated == 1      \* auto-generated personas in the catalog

----------------------------------------------------------------------------
(* Fixed-point units                                                       *)

SUB == 1000
ONE == 40 * SUB

----------------------------------------------------------------------------
(* Generic helpers                                                         *)

Range(s) == { s[i] : i \in 1..Len(s) }

MinOf(a, b) == IF a <= b THEN a ELSE b

Contains(text, kw) == \E i \in 1..Len(text) : text[i] = kw

\* sum(1 for keyword in keywords if keyword in text)
CountHits(keywords, text) ==
    LET words == Range(text)
    IN  Cardinality({ i \in 1..Len(keywords) : keywords[i] \in words })

\* any(indicator in text for indicator in indicators)
AnyHit(keywords, text) ==
    LET words == Range(text)
    IN  \E i \in 1..Len(keywords) : keywords[i] \in words

\* the last entry whose count is not exceeded by any other entry
FirstMax_last(table, text) ==
    LET scores == [ i \in 1..Len(table) |-> CountHits(table[i].keywords, text) ]
    IN  CHOOSE i \in 1..Len(table) :
            /\ \A j \in 1..Len(table) : scores[j] <= scores[i]
            /\ \A j \in (i + 1)..Len(table) : scores[j] < scores[i]

\* max(scores, key=scores.get) over a dict in insertion order: the first
\* entry whose count is not exceeded by any other entry
FirstMax(table, text) ==
    LET scores == [ i \in 1..Len(table) |-> CountHits(table[i].keywords, text) ]
    IN  CHOOSE i \in 1..Len(table) :
            /\ \A j \in 1..Len(table) : scores[j] <= scores[i]
            /\ \A j \in 1..(i - 1) : scores[j] < scores[i]

\* for label, indicators in table.items(): if any(...): return label
FirstAny(table, text, default) ==
    IF \E i \in 1..Len(table) : AnyHit(table[i].keywords, text)
    THEN table[CHOOSE i \in 1..Len(table) :
                  /\ AnyHit(table[i].keywords, text)
                  /\ \A j \in 1..(i - 1) : ~AnyHit(table[j].keywords, text)].label
    ELSE default

----------------------------------------------------------------------------
(* Keyword tables of the task analyzer and classifier                      *)

category_keywords ==
    << [label |-> "technical", keywords |-> <<"debug", "code",
          "programming", "software", "technical", "implementation",
          "algorithm", "system", "architecture", "development", "engineering",
          "python", "javascript", "api", "database", "server", "deployment">>],
       [label |-> "creative", keywords |-> <<"write", "story", "creative",
          "narrative", "content", "marketing", "copy", "brand", "imaginative",
          "artistic", "expressive", "engaging", "storytelling",
          "creative writing", "content creation">>],
       [label |-> "business", keywords |-> <<"business", "analysis",
          "strategy", "market", "process", "optimization", "data analysis",
          "insights", "planning", "consulting", "management", "strategy",
          "business case", "roi", "efficiency">>],
       [label |-> "educational", keywords |-> <<"teach", "explain",
          "educate", "learn", "training", "curriculum", "instructional",
          "pedagogy", "tutorial", "guide", "mentor", "educational",
          "learning", "teaching", "instruction", "how to", "step by step",
          "walkthrough", "demonstrate", "show", "instruct", "coach", "help",
          "assist", "support", "clarify", "break down", "simplify",
          "make easy", "understand", "comprehend", "grasp", "follow",
          "practice", "exercise", "workshop", "lesson", "course", "class",
          "workshop", "seminar", "presentation", "demo", "example">>],
       [label |-> "design", keywords |-> <<"design", "ui", "ux", "visual",
          "graphic", "aesthetic", "user experience", "interface", "branding",
          "layout", "prototype", "wireframe", "design system",
          "visual design">>],
       [label |-> "scientific", keywords |-> <<"research", "scientific",
          "methodology", "evidence", "analysis", "experiment", "hypothesis",
          "data", "statistics", "peer review", "scientific method",
          "empirical", "study">>],
       [label |-> "consulting", keywords |-> <<"consult", "advise",
          "strategy", "problem solving", "organizational",
          "change management", "business consulting", "advisory", "solution",
          "recommendation", "best practices">>],
       [label |-> "mentoring", keywords |-> <<"mentor", "coach", "guide",
          "support", "development", "career", "leadership",
          "personal development", "growth", "advice", "mentoring", "coaching",
          "guidance">>] >>

domain_keywords ==
    << [label |-> "technology", keywords |-> <<"tech", "software",
          "programming", "code", "system">>],
       [label |-> "business", keywords |-> <<"business", "market",
          "strategy", "process", "management">>],
       [label |-> "creative", keywords |-> <<"creative", "art", "design",
          "content", "story">>],
       [label |-> "education", keywords |-> <<"education", "teaching",
          "learning", "training", "how to", "tutorial", "guide", "instruct",
          "explain", "demonstrate">>],
       [label |-> "science", keywords |-> <<"science", "research",
          "analysis", "data", "experiment">>],
       [label |-> "healthcare", keywords |-> <<"health", "medical",
          "patient", "clinical", "diagnosis">>],
       [label |-> "finance", keywords |-> <<"finance", "investment",
          "money", "budget", "financial">>],
       [label |-> "legal", keywords |-> <<"legal", "law", "contract",
          "compliance", "regulation">>] >>

complexity_indicators ==
    << [label |-> "high", keywords |-> <<"complex", "advanced",
          "sophisticated", "intricate", "detailed", "comprehensive">>],
       [label |-> "low", keywords |-> <<"simple", "basic", "easy",
          "straightforward", "quick", "simple">>] >>

urgency_indicators ==
    << [label |-> "high", keywords |-> <<"urgent", "asap", "emergency",
          "critical", "immediate", "quickly">>],
       [label |-> "low", keywords |-> <<"when convenient", "no rush",
          "take your time", "leisurely">>] >>

audience_indicators ==
    << [label |-> "technical", keywords |-> <<"developer", "engineer",
          "technical", "programmer", "architect">>],
       [label |-> "business", keywords |-> <<"executive", "manager",
          "business", "stakeholder", "client">>],
       [label |-> "expert", keywords |-> <<"expert", "specialist",
          "professional", "advanced">>],
       [label |-> "general", keywords |-> <<"user", "customer", "general",
          "public", "beginner">>] >>

format_indicators ==
    << [label |-> "code", keywords |-> <<"code", "script", "program",
          "function", "class", "implementation">>],
       [label |-> "analysis", keywords |-> <<"analysis", "report",
          "insights", "findings", "evaluation">>],
       [label |-> "creative", keywords |-> <<"story", "narrative",
          "creative", "artistic", "imaginative">>],
       [label |-> "documentation", keywords |-> <<"documentation", "guide",
          "manual", "tutorial", "instructions">>] >>

audience_style_preferences ==
    << [label |-> "technical", keywords |-> <<"professional", "technical",
          "analytical">>],
       [label |-> "business", keywords |-> <<"strategic", "analytical",
          "professional">>],
       [label |-> "general", keywords |-> <<"patient", "explanatory",
          "engaging">>],
       [label |-> "expert", keywords |-> <<"technical", "analytical",
          "professional">>] >>

----------------------------------------------------------------------------
(* TaskAnalyzer and TaskClassifier                                         *)

_identify_domain(text) == domain_keywords[FirstMax(domain_keywords, text)].label

_assess_complexity(text) == FirstAny(complexity_indicators, text, "medium")

_assess_urgency(text) == FirstAny(urgency_indicators, text, "normal")

_identify_audience(text) == FirstAny(audience_indicators, text, "general")

_identify_output_format(text) == FirstAny(format_indicators, text, "text")

analyze_task(task_description, context) ==
    LET full_text == task_description \o context
    IN  [ task_description |-> task_description,
          user_context     |-> context,
          domain           |-> _identify_domain(full_text),
          complexity       |-> _assess_complexity(full_text),
          urgency          |-> _assess_urgency(full_text),
          audience         |-> _identify_audience(full_text),
          output_format    |-> _identify_output_format(full_text) ]

classify_task(task_context) ==
    LET full_text == task_context.task_description \o task_context.user_context
        best == FirstMax(category_keywords, full_text)
    IN  IF CountHits(category_keywords[best].keywords, full_text) > 0
        THEN category_keywords[best].label
        ELSE "general"

----------------------------------------------------------------------------
(* ContextIntegration: cached project-context snapshot and its analysis    *)

cache_ttl == 300

\* the value None of get_project_context
NoContext ==
    [ none |-> TRUE, name |-> "", current_goal |-> <<>>,
      current_issues |-> <<>>, next_steps |-> <<>> ]

\* ContextIntegration.cache after __init__: {}
EmptyCache == [ has_timestamp |-> FALSE, context |-> NoContext, timestamp |-> 0 ]

\* the validity test with "<=" for "<"
_is_cache_valid_inclusive(c, t) ==
    IF ~c.has_timestamp THEN FALSE ELSE (t - c.timestamp) <= cache_ttl

_is_cache_valid(c, t) ==
    IF ~c.has_timestamp THEN FALSE ELSE (t - c.timestamp) < cache_ttl

\* response: [ok |-> FALSE] for an exception or a non-200 status, else the
\* ProjectContext built from the payload.  Result: the returned context and
\* the cache afterwards.
get_project_context(c, t, force_refresh, response) ==
    IF ~force_refresh /\ _is_cache_valid(c, t)
    THEN [ context |-> c.context, cache |-> c, fetched |-> FALSE ]
    ELSE IF response.ok
         THEN [ context |-> response.context,
                cache   |-> [ has_timestamp |-> TRUE, context |-> response.context,
                              timestamp |-> t ],
                fetched |-> TRUE ]
         ELSE [ context |-> NoContext, cache |-> c, fetched |-> TRUE ]

\* len(intersection) / len(union) of the two word sets, as the pair
\* <<numerator, denominator>>; <<0, 1>> when either text is empty
_calculate_text_similarity(text1, text2) ==
    IF Len(text1) = 0 \/ Len(text2) = 0
    THEN << 0, 1 >>
    ELSE << Cardinality(Range(text1) \cap Range(text2)),
            Cardinality(Range(text1) \cup Range(text2)) >>

\* similarity > tenths / 10
Exceeds(sim, tenths) == 10 * sim[1] > tenths * sim[2]

\* similarity in units of 1/SUB
SimValue(sim) == (sim[1] * SUB) \div sim[2]

context_domain_keywords ==
    << [label |-> "technical", keywords |-> <<"code", "programming",
          "software", "technical", "implementation", "debug", "api",
          "database", "server", "deployment">>],
       [label |-> "business", keywords |-> <<"business", "analysis",
          "strategy", "market", "process", "optimization", "roi",
          "efficiency">>],
       [label |-> "creative", keywords |-> <<"write", "story", "creative",
          "narrative", "content", "marketing", "copy", "brand">>],
       [label |-> "educational", keywords |-> <<"teach", "explain",
          "educate", "learn", "training", "curriculum", "tutorial">>],
       [label |-> "design", keywords |-> <<"design", "ui", "ux", "visual",
          "graphic", "aesthetic", "interface", "prototype">>],
       [label |-> "scientific", keywords |-> <<"research", "scientific",
          "methodology", "evidence", "analysis", "experiment", "data">>],
       [label |-> "consulting", keywords |-> <<"consult", "advise",
          "strategy", "problem solving", "organizational", "solution">>] >>

RECURSIVE Flatten(_)
Flatten(texts) ==
    IF Len(texts) = 0 THEN <<>> ELSE Head(texts) \o Flatten(Tail(texts))

_determine_domain_from_context(context, task) ==
    LET combined_text == task \o context.current_goal
                              \o Flatten(context.current_issues)
                              \o Flatten(context.next_steps)
    IN  context_domain_keywords[FirstMax(context_domain_keywords, combined_text)].label

_recommend_personas_from_context(context, task) ==
    (IF AnyHit(<<"code", "programming", "software", "technical", "api", "database">>, task)
        THEN {"tech_expert", "software_engineer"} ELSE {})
    \cup
    (IF AnyHit(<<"business", "analysis", "strategy", "market", "process">>, task)
        THEN {"business_analyst", "domain_specialist"} ELSE {})
    \cup
    (IF AnyHit(<<"write", "story", "creative", "content", "marketing">>, task)
        THEN {"creative_writer", "domain_specialist"} ELSE {})
    \cup
    (IF AnyHit(<<"teach", "explain", "educate", "learn", "tutorial">>, task)
        THEN {"educator", "domain_specialist"} ELSE {})
    \cup
    (IF AnyHit(<<"data", "analysis", "statistics", "research">>, task)
        THEN {"data_scientist", "business_analyst"} ELSE {})

\* the insight strings and relevance contributed by a list of issues or steps
RECURSIVE ListInsights(_, _, _, _)
ListInsights(task, texts, tenths, prefix) ==
    IF Len(texts) = 0 THEN <<>>
    ELSE (IF Exceeds(_calculate_text_similarity(task, Head(texts)), tenths)
             THEN << prefix \o Head(texts) >> ELSE <<>>)
         \o ListInsights(task, Tail(texts), tenths, prefix)

RECURSIVE ListRelevance(_, _, _)
ListRelevance(task, texts, tenths) ==
    IF Len(texts) = 0 THEN 0
    ELSE (IF Exceeds(_calculate_text_similarity(task, Head(texts)), tenths)
             THEN SimValue(_calculate_text_similarity(task, Head(texts))) ELSE 0)
         + ListRelevance(task, Tail(texts), tenths)

\* context: the result of get_project_context.  all_fields is FALSE when the
\* returned dict has only priority, domain and urgency.
analyze_context_for_task(context, task) ==
    IF context.none
    THEN [ priority |-> "medium", domain |-> "general", urgency |-> "normal",
           context_relevance |-> 0, recommended_personas |-> {},
           context_insights |-> <<>>, all_fields |-> FALSE ]
    ELSE
      LET goal_sim  == _calculate_text_similarity(task, context.current_goal)
          goal_hit  == Exceeds(goal_sim, 3)
          issue_ins == ListInsights(task, context.current_issues, 4,
                                    <<"task", "addresses", "current", "issue">>)
          step_ins  == ListInsights(task, context.next_steps, 3,
                                    <<"task", "supports", "next", "step">>)
      IN [ priority |-> IF goal_hit \/ Len(step_ins) > 0 THEN "high" ELSE "medium",
           domain   |-> _determine_domain_from_context(context, task),
           urgency  |-> IF Len(issue_ins) > 0 THEN "high" ELSE "normal",
           context_relevance |->
               (IF goal_hit THEN SimValue(goal_sim) ELSE 0)
               + ListRelevance(task, context.current_issues, 4)
               + ListRelevance(task, context.next_steps, 3),
           recommended_personas |-> _recommend_personas_from_context(context, task),
           context_insights |->
               (IF goal_hit
                   THEN << <<"task", "aligns", "with", "current", "goal">>
                           \o context.current_goal >>
                   ELSE <<>>) \o issue_ins \o step_ins,
           all_fields |-> TRUE ]

----------------------------------------------------------------------------
(* difflib.SequenceMatcher(None, a, b).ratio() on word sequences           *)

\* length of the common run of a from i and b from j, inside a[..ahi], b[..bhi]
RECURSIVE CommonLen(_, _, _, _, _, _)
CommonLen(a, i, ahi, b, j, bhi) ==
    IF i > ahi \/ j > bhi \/ a[i] # b[j] THEN 0
    ELSE 1 + CommonLen(a, i + 1, ahi, b, j + 1, bhi)

\* find_longest_match: the longest block, the earliest in a and then in b
\* (<<alo, blo, 0>> when nothing matches)
find_longest_match(a, alo, ahi, b, blo, bhi) ==
    LET starts == { p \in (alo..ahi) \X (blo..bhi) : a[p[1]] = b[p[2]] }
        size == [ p \in starts |-> CommonLen(a, p[1], ahi, b, p[2], bhi) ]
        best == CHOOSE p \in starts :
                   \A q \in starts :
                       \/ size[q] < size[p]
                       \/ size[q] = size[p] /\ p[1] < q[1]
                       \/ size[q] = size[p] /\ p[1] = q[1] /\ p[2] <= q[2]
    IN  IF starts = {} THEN << alo, blo, 0 >>
        ELSE << best[1], best[2], size[best] >>

\* total size of the matching blocks (get_matching_blocks)
RECURSIVE MatchCount(_, _, _, _, _, _)
MatchCount(a, alo, ahi, b, blo, bhi) ==
    IF alo > ahi \/ blo > bhi THEN 0
    ELSE LET m == find_longest_match(a, alo, ahi, b, blo, bhi)
         IN  IF m[3] = 0 THEN 0
             ELSE m[3]
                  + MatchCount(a, alo, m[1] - 1, b, blo, m[2] - 1)
                  + MatchCount(a, m[1] + m[3], ahi, b, m[2] + m[3], bhi)

\* 2.0 * matches / (len(a) + len(b)), 1.0 for two empty sequences
calculate_similarity_score(text1, text2) ==
    IF Len(text1) + Len(text2) = 0 THEN SUB
    ELSE (2 * MatchCount(text1, 1, Len(text1), text2, 1, Len(text2)) * SUB)
             \div (Len(text1) + Len(text2))

----------------------------------------------------------------------------
(* PersonaScorer                                                           *)

W_expertise == 14    \* 0.35
W_category  == 10    \* 0.25
W_context   == 8     \* 0.20
W_style     == 6     \* 0.15
W_trait     == 2     \* 0.05

TaskText(task_context) == task_context.task_description \o task_context.user_context

\* the expertise score without the division by len(expertise)
_calculate_expertise_score_unnormalised(persona_data, task_context) ==
    CountHits(persona_data.expertise, TaskText(task_context)) * SUB

_calculate_expertise_score(persona_data, task_context) ==
    LET expertise == persona_data.expertise
        matches == CountHits(expertise, TaskText(task_context))
    IN  IF Len(expertise) = 0 THEN 0
        ELSE MinOf((matches * SUB) \div Len(expertise), SUB)

audience_preferences(audience) ==
    IF \E i \in 1..Len(audience_style_preferences) :
           audience_style_preferences[i].label = audience
    THEN audience_style_preferences[
             CHOOSE i \in 1..Len(audience_style_preferences) :
                 audience_style_preferences[i].label = audience].keywords
    ELSE <<>>

_calculate_style_score(persona_data, task_context) ==
    LET style == persona_data.communication_style
    IN  IF Len(style) = 0 THEN 0
        ELSE IF AnyHit(audience_preferences(task_context.audience), style)
             THEN SUB ELSE 0

_calculate_context_score(persona_data, task_context) ==
    IF Len(persona_data.context) = 0 THEN 0
    ELSE calculate_similarity_score(persona_data.context, TaskText(task_context))

persona_categories ==
    << [key |-> <<"tech", "expert">>,      category |-> "technical"],
       [key |-> <<"creative", "writer">>,  category |-> "creative"],
       [key |-> <<"business", "analyst">>, category |-> "business"],
       [key |-> <<"educator">>,            category |-> "educational"],
       [key |-> <<"designer">>,            category |-> "design"],
       [key |-> <<"scientist">>,           category |-> "scientific"],
       [key |-> <<"consultant">>,          category |-> "consulting"],
       [key |-> <<"mentor">>,              category |-> "mentoring"] >>

\* key.replace("_", " ") in persona_name: the key's words are consecutive
\* words of the name
KeyInName(key, name) ==
    \E s \in 0..(Len(name) - Len(key)) : \A d \in 1..Len(key) : name[s + d] = key[d]

_calculate_category_score(persona_data, task_category) ==
    LET name == persona_data.name
        hit(i) == KeyInName(persona_categories[i].key, name)
    IN  IF \E i \in 1..Len(persona_categories) : hit(i)
        THEN LET first == CHOOSE i \in 1..Len(persona_categories) :
                              hit(i) /\ \A j \in 1..(i - 1) : ~hit(j)
             IN  IF persona_categories[first].category = task_category
                 THEN SUB ELSE 0
        ELSE SUB \div 2

_calculate_trait_score(persona_data, task_context) ==
    LET traits == persona_data.personality_traits
        matches == CountHits(traits, TaskText(task_context))
    IN  IF Len(traits) = 0 THEN 0
        ELSE MinOf((matches * SUB) \div Len(traits), SUB)

\* the score and the five sub-scores behind it
_calculate_persona_score(persona_data, task_context, task_category) ==
    LET expertise_score == _calculate_expertise_score(persona_data, task_context)
        category_score  == _calculate_category_score(persona_data, task_category)
        context_score   == _calculate_context_score(persona_data, task_context)
        style_score     == _calculate_style_score(persona_data, task_context)
        trait_score     == _calculate_trait_score(persona_data, task_context)
        score == expertise_score * W_expertise + category_score * W_category
                 + context_score * W_context + style_score * W_style
                 + trait_score * W_trait
    IN  [ score     |-> MinOf(score, ONE),
          expertise |-> expertise_score,
          category  |-> category_score,
          context   |-> context_score,
          style     |-> style_score,
          trait     |-> trait_score ]

----------------------------------------------------------------------------
(* PersonaGenerator                                                        *)

domain_templates ==
    << [domain |-> "technology", templates |-> <<
          [name |-> <<"software", "engineer">>, base_expertise |->
            <<"programming", "software development", "system design">>,
            communication_style |-> <<"technical", "and", "precise">>,
            context |-> <<"use", "for", "software", "development",
            "debugging", "and", "technical", "implementation">>,
            personality_traits |-> <<"analytical", "logical",
            "detail-oriented">>, category |-> "technical"],
          [name |-> <<"devops", "engineer">>, base_expertise |->
            <<"devops", "infrastructure", "deployment", "operations">>,
            communication_style |-> <<"practical", "and", "systematic">>,
            context |-> <<"use", "for", "infrastructure", "management",
            "deployment", "and", "operational", "tasks">>,
            personality_traits |-> <<"systematic", "practical",
            "reliable">>, category |-> "technical"],
          [name |-> <<"data", "engineer">>, base_expertise |->
            <<"data engineering", "etl", "data pipelines", "big data">>,
            communication_style |-> <<"data-focused", "and", "analytical">>,
            context |-> <<"use", "for", "data", "infrastructure",
            "pipeline", "development", "and", "data", "processing">>,
            personality_traits |-> <<"analytical", "data-driven",
            "systematic">>, category |-> "technical"] >>],
       [domain |-> "science", templates |-> <<
          [name |-> <<"research", "scientist">>, base_expertise |->
            <<"scientific research", "methodology", "data analysis",
            "experimentation">>, communication_style |-> <<"methodical",
            "and", "evidence-based">>, context |-> <<"use", "for",
            "scientific", "research", "experimentation", "and", "data",
            "analysis">>, personality_traits |-> <<"methodical",
            "evidence-based", "curious">>, category |-> "scientific"],
          [name |-> <<"medical", "researcher">>, base_expertise |->
            <<"medical research", "clinical studies", "healthcare",
            "biomedical">>, communication_style |-> <<"clinical", "and",
            "precise">>, context |-> <<"use", "for", "medical", "research",
            "clinical", "studies", "and", "healthcare", "analysis">>,
            personality_traits |-> <<"clinical", "precise",
            "compassionate">>, category |-> "scientific"],
          [name |-> <<"environmental", "scientist">>, base_expertise |->
            <<"environmental science", "sustainability", "climate research",
            "ecology">>, communication_style |-> <<"environmental", "and",
            "holistic">>, context |-> <<"use", "for", "environmental",
            "research", "sustainability", "analysis", "and", "climate",
            "studies">>, personality_traits |-> <<"environmental",
            "holistic", "sustainable">>, category |-> "scientific"] >>],
       [domain |-> "business", templates |-> <<
          [name |-> <<"business", "strategist">>, base_expertise |->
            <<"business strategy", "market analysis", "strategic planning",
            "competitive analysis">>, communication_style |-> <<"strategic",
            "and", "analytical">>, context |-> <<"use", "for", "business",
            "strategy", "market", "analysis", "and", "strategic",
            "planning">>, personality_traits |-> <<"strategic",
            "analytical", "visionary">>, category |-> "business"],
          [name |-> <<"financial", "analyst">>, base_expertise |->
            <<"financial analysis", "investment", "risk assessment",
            "financial modeling">>, communication_style |-> <<"financial",
            "and", "analytical">>, context |-> <<"use", "for", "financial",
            "analysis", "investment", "strategies", "and", "risk",
            "assessment">>, personality_traits |-> <<"analytical",
            "risk-aware", "financial">>, category |-> "business"],
          [name |-> <<"operations", "manager">>, base_expertise |->
            <<"operations management", "process optimization", "efficiency",
            "supply chain">>, communication_style |->
            <<"efficiency-focused", "and", "practical">>, context |->
            <<"use", "for", "operations", "management", "process",
            "optimization", "and", "efficiency", "improvement">>,
            personality_traits |-> <<"efficient", "practical",
            "organized">>, category |-> "business"] >>],
       [domain |-> "creative", templates |-> <<
          [name |-> <<"content", "creator">>, base_expertise |->
            <<"content creation", "digital media", "social media",
            "branding">>, communication_style |-> <<"creative", "and",
            "engaging">>, context |-> <<"use", "for", "content", "creation",
            "digital", "media", "and", "brand", "development">>,
            personality_traits |-> <<"creative", "engaging",
            "trend-aware">>, category |-> "creative"],
          [name |-> <<"visual", "designer">>, base_expertise |->
            <<"visual design", "graphic design", "visual communication",
            "brand identity">>, communication_style |-> <<"visual", "and",
            "artistic">>, context |-> <<"use", "for", "visual", "design",
            "graphic", "design", "and", "visual", "communication">>,
            personality_traits |-> <<"visual", "artistic", "aesthetic">>,
            category |-> "design"],
          [name |-> <<"copywriter">>, base_expertise |-> <<"copywriting",
            "brand messaging", "persuasive writing", "marketing copy">>,
            communication_style |-> <<"persuasive", "and", "engaging">>,
            context |-> <<"use", "for", "copywriting", "brand", "messaging",
            "and", "persuasive", "content">>, personality_traits |->
            <<"persuasive", "engaging", "creative">>, category |->
            "creative"] >>],
       [domain |-> "healthcare", templates |-> <<
          [name |-> <<"medical", "professional">>, base_expertise |->
            <<"medical practice", "patient care", "clinical diagnosis",
            "healthcare">>, communication_style |-> <<"clinical", "and",
            "compassionate">>, context |-> <<"use", "for", "medical",
            "advice", "patient", "care", "and", "clinical", "discussions">>,
            personality_traits |-> <<"clinical", "compassionate",
            "professional">>, category |-> "scientific"],
          [name |-> <<"public", "health", "specialist">>, base_expertise
            |-> <<"public health", "epidemiology", "community health",
            "health policy">>, communication_style |-> <<"public", "health",
            "and", "community-focused">>, context |-> <<"use", "for",
            "public", "health", "discussions", "epidemiology", "and",
            "community", "health">>, personality_traits |->
            <<"community-focused", "health-conscious", "analytical">>,
            category |-> "scientific"] >>],
       [domain |-> "legal", templates |-> <<
          [name |-> <<"legal", "advisor">>, base_expertise |->
            <<"legal practice", "regulatory compliance", "contract law",
            "legal analysis">>, communication_style |-> <<"legal", "and",
            "precise">>, context |-> <<"use", "for", "legal", "advice",
            "regulatory", "compliance", "and", "contract", "analysis">>,
            personality_traits |-> <<"legal", "precise",
            "compliance-focused">>, category |-> "consulting"],
          [name |-> <<"compliance", "specialist">>, base_expertise |->
            <<"compliance", "risk management", "regulatory affairs",
            "audit">>, communication_style |-> <<"compliance-focused",
            "and", "systematic">>, context |-> <<"use", "for", "compliance",
            "matters", "risk", "management", "and", "regulatory",
            "affairs">>, personality_traits |-> <<"compliance-focused",
            "systematic", "risk-aware">>, category |-> "consulting"] >>],
       [domain |-> "finance", templates |-> <<
          [name |-> <<"investment", "advisor">>, base_expertise |->
            <<"investment", "portfolio management", "financial planning",
            "risk assessment">>, communication_style |-> <<"financial",
            "and", "analytical">>, context |-> <<"use", "for", "investment",
            "advice", "financial", "planning", "and", "portfolio",
            "management">>, personality_traits |-> <<"financial",
            "analytical", "risk-aware">>, category |-> "business"],
          [name |-> <<"cryptocurrency", "expert">>, base_expertise |->
            <<"cryptocurrency", "blockchain", "defi", "digital assets">>,
            communication_style |-> <<"innovative", "and", "technical">>,
            context |-> <<"use", "for", "cryptocurrency", "discussions",
            "blockchain", "technology", "and", "defi">>, personality_traits
            |-> <<"innovative", "technical", "forward-thinking">>, category
            |-> "technical"] >>] >>

generic_templates ==
    << [name |-> <<"domain", "specialist">>, base_expertise |->
       <<"domain expertise", "problem solving", "analysis">>,
       communication_style |-> <<"professional", "and",
       "knowledgeable">>, context |-> <<"use", "for",
       "domain-specific", "tasks", "and", "specialized", "knowledge">>,
       personality_traits |-> <<"knowledgeable", "professional",
       "specialized">>, category |-> "general"],
       [name |-> <<"problem", "solver">>, base_expertise |->
       <<"problem solving", "analysis", "critical thinking">>,
       communication_style |-> <<"analytical", "and",
       "solution-focused">>, context |-> <<"use", "for", "complex",
       "problem", "solving", "and", "analytical", "tasks">>,
       personality_traits |-> <<"analytical", "solution-focused",
       "logical">>, category |-> "general"] >>


stop_words ==
    { "the", "a", "an", "and", "or", "but", "in", "on", "at", "to", "for",
      "of", "with", "by", "is", "are", "was", "were", "be", "been", "being",
      "have", "has", "had", "do", "does", "did", "will", "would", "could",
      "should", "may", "might", "can", "this", "that", "these", "those",
      "help", "me", "my", "you", "your", "we", "our", "us", "they", "their" }

\* len(word) of the words a task description is made of
WordLen(w) ==
    CASE w = "zzz" -> 3
      [] w = "code" -> 4
      [] w = "story" -> 5
      [] w = "python" -> 6
      [] w = "developer" -> 9
      [] w = "programming" -> 11
      [] OTHER -> 4

\* [w for w in s if w in kept]
RECURSIVE Filter(_, _)
Filter(s, kept) ==
    IF Len(s) = 0 THEN <<>>
    ELSE (IF Head(s) \in kept THEN << Head(s) >> ELSE <<>>) \o Filter(Tail(s), kept)

Take(s, n) == SubSeq(s, 1, MinOf(n, Len(s)))

_extract_task_keywords(task_description) ==
    LET kept == { w \in Range(task_description) :
                      w \notin stop_words /\ WordLen(w) > 2 }
    IN  Take(Filter(task_description, kept), 10)

\* keyword.lower() in term.lower(); over this vocabulary a keyword occurs in
\* a template term or name only as the whole term or as one of its words
OccursIn(keyword, term) == keyword = term

\* score in tenths
_calculate_template_score(template, task_keywords, task_category) ==
    LET cat_part == IF template.category = task_category THEN 5 ELSE 0
        exp_part == 2 * Cardinality(
                        { p \in (1..Len(task_keywords)) \X (1..Len(template.base_expertise)) :
                              OccursIn(task_keywords[p[1]], template.base_expertise[p[2]]) })
        name_part == 3 * Cardinality(
                        { i \in 1..Len(task_keywords) :
                              Contains(template.name, task_keywords[i]) })
    IN  MinOf(cat_part + exp_part + name_part, 10)

\* the first template with the strictly highest score above 0, if any
BestTemplate(templates, task_keywords, task_category) ==
    LET sc(i) == _calculate_template_score(templates[i], task_keywords, task_category)
    IN  IF \E i \in 1..Len(templates) : sc(i) > 0
        THEN << templates[CHOOSE i \in 1..Len(templates) :
                   /\ sc(i) > 0
                   /\ \A j \in 1..Len(templates) : sc(j) <= sc(i)
                   /\ \A j \in 1..(i - 1) : sc(j) < sc(i)] >>
        ELSE <<>>

\* the selected template as a one-element sequence, <<>> for None
_select_template(domain, task_category, task_keywords) ==
    LET doms == { i \in 1..Len(domain_templates) : domain_templates[i].domain = domain }
        dom_best == IF doms = {} THEN <<>>
                    ELSE BestTemplate(domain_templates[CHOOSE i \in doms : TRUE].templates,
                                      task_keywords, task_category)
        gen == { i \in 1..Len(generic_templates) :
                     generic_templates[i].category = task_category }
    IN  IF Len(dom_best) > 0 THEN dom_best
        ELSE IF gen # {}
             THEN << generic_templates[CHOOSE i \in gen : \A j \in gen : i <= j] >>
             ELSE IF Len(generic_templates) > 0 THEN << generic_templates[1] >>
                  ELSE <<>>

_customize_name(base_name, task_keywords, domain) ==
    IF domain = "technology" /\ \E i \in 1..Len(task_keywords) :
           task_keywords[i] \in {"ai", "machine", "learning"}
    THEN <<"ai">> \o base_name
    ELSE IF domain = "science" /\ \E i \in 1..Len(task_keywords) :
           task_keywords[i] \in {"medical", "health", "clinical"}
    THEN <<"medical">> \o base_name
    ELSE IF domain = "business" /\ \E i \in 1..Len(task_keywords) :
           task_keywords[i] \in {"financial", "investment", "trading"}
    THEN <<"financial">> \o base_name
    ELSE IF domain = "creative" /\ \E i \in 1..Len(task_keywords) :
           task_keywords[i] \in {"digital", "online", "web"}
    THEN <<"digital">> \o base_name
    ELSE base_name

domain_expertise(domain) ==
    CASE domain = "technology" -> <<"programming", "system design", "problem solving">>
      [] domain = "science"    -> <<"research", "analysis", "methodology">>
      [] domain = "business"   -> <<"strategy", "analysis", "planning">>
      [] domain = "creative"   -> <<"creative thinking", "innovation", "design">>
      [] domain = "healthcare" -> <<"medical knowledge", "patient care", "clinical skills">>
      [] domain = "legal"      -> <<"legal analysis", "compliance", "regulatory knowledge">>
      [] domain = "finance"    -> <<"financial analysis", "risk management", "investment">>
      [] OTHER -> <<>>

\* list(set(expertise)): the distinct terms, in the order of first occurrence
RECURSIVE Dedup(_)
Dedup(s) ==
    IF Len(s) = 0 THEN <<>>
    ELSE LET front == Dedup(SubSeq(s, 1, Len(s) - 1))
         IN  IF Contains(front, s[Len(s)]) THEN front ELSE Append(front, s[Len(s)])

_expand_expertise(base_expertise, task_keywords, domain) ==
    LET top == Take(task_keywords, 3)
    IN  Dedup(base_expertise \o domain_expertise(domain)
                  \o Filter(top, { w \in Range(top) : WordLen(w) > 3 }))

_customize_communication_style(base_style, audience) ==
    CASE audience = "technical" -> <<"technical", "and", "precise">>
      [] audience = "business"  -> <<"professional", "and", "strategic">>
      [] audience = "general"   -> <<"clear", "and", "accessible">>
      [] audience = "expert"    -> <<"advanced", "and", "detailed">>
      [] OTHER -> base_style

_customize_context(base_context, task_context) ==
    LET complexity == CASE task_context.complexity = "high" -> <<"complex", "and", "advanced">>
                        [] task_context.complexity = "medium" -> <<"moderate", "complexity">>
                        [] task_context.complexity = "low" -> <<"straightforward", "and", "simple">>
                        [] OTHER -> <<>>
        urgency == CASE task_context.urgency = "high" -> <<"urgent", "and", "time-sensitive">>
                     [] task_context.urgency = "normal" -> <<"standard", "timeline">>
                     [] task_context.urgency = "low" -> <<"flexible", "timeline">>
                     [] OTHER -> <<>>
    IN  IF Len(complexity) > 0 /\ Len(urgency) > 0
        THEN base_context \o <<"for">> \o complexity \o <<"tasks", "with">>
                 \o urgency \o <<"requirements">>
        ELSE base_context

\* re.sub(r'[^a-zA-Z0-9\s]', '', name.lower()).replace(' ', '_')
RECURSIVE Slug(_)
Slug(name) ==
    IF Len(name) = 0 THEN ""
    ELSE IF Len(name) = 1 THEN name[1]
    ELSE name[1] \o "_" \o Slug(Tail(name))

\* PersonaGenerator._generate_persona_id: slug plus strftime("%Y%m%d_%H%M%S")
generator_persona_id(name, t) == Slug(name) \o "_" \o ToString(t)

_generate_from_template(template, task_context, task_keywords) ==
    [ name |-> _customize_name(template.name, task_keywords, task_context.domain),
      expertise |-> _expand_expertise(template.base_expertise, task_keywords,
                                      task_context.domain),
      communication_style |->
          _customize_communication_style(template.communication_style,
                                         task_context.audience),
      context |-> _customize_context(template.context, task_context),
      personality_traits |-> template.personality_traits ]

\* the persona dict generate_persona_for_task returns
GeneratedRecord(persona_data, t) ==
    [ id |-> generator_persona_id(persona_data.name, t),
      name |-> persona_data.name,
      expertise |-> persona_data.expertise,
      communication_style |-> persona_data.communication_style,
      context |-> persona_data.context,
      personality_traits |-> persona_data.personality_traits,
      auto_generated |-> TRUE ]

\* the part of generate_persona_for_task after _select_template
GenerateFrom(template, task_context, task_keywords, t) ==
    IF Len(template) = 0 THEN <<>>
    ELSE << GeneratedRecord(_generate_from_template(template[1], task_context,
                                                    task_keywords), t) >>

\* the generated persona as a one-element sequence, <<>> for None
generate_persona_for_task(task_context, task_category, t) ==
    LET task_keywords == _extract_task_keywords(task_context.task_description)
    IN  GenerateFrom(_select_template(task_context.domain, task_category,
                                      task_keywords),
                     task_context, task_keywords, t)

----------------------------------------------------------------------------
(* PersonaStorage and PersonaManager: the catalog is the ordered dict kept *)
(* in personas.json, a sequence of persona records with distinct ids.      *)
(* Fields no modelled operation reads (description, created_at,            *)
(* updated_at, generation_reason, original_task) are left out.             *)

HasId(cat, id) == \E i \in 1..Len(cat) : cat[i].id = id

IndexOf(cat, id) == CHOOSE i \in 1..Len(cat) : cat[i].id = id

\* PersonaStorage.save_persona: personas[persona_id] = {**persona_data, "id": persona_id}
save_persona(cat, persona_id, persona_data) ==
    LET stored == [ persona_data EXCEPT !.id = persona_id ]
    IN  IF HasId(cat, persona_id)
        THEN [ cat EXCEPT ![IndexOf(cat, persona_id)] = stored ]
        ELSE Append(cat, stored)

\* a delete that also drops every entry stored after the deleted one
storage_delete_persona_truncating(cat, persona_id) ==
    IF HasId(cat, persona_id) THEN SubSeq(cat, 1, IndexOf(cat, persona_id) - 1) ELSE cat

\* PersonaStorage.delete_persona
storage_delete_persona(cat, persona_id) ==
    LET kept == { i \in 1..Len(cat) : cat[i].id # persona_id }
        pick[i \in 1..Len(cat)] ==
            CHOOSE j \in kept : Cardinality({ k \in kept : k <= j }) = i
    IN  [ i \in 1..Cardinality(kept) |-> cat[pick[i]] ]

\* PersonaStorage.get_persona: the stored record as a one-element sequence,
\* <<>> for None
get_persona(cat, persona_id) ==
    IF HasId(cat, persona_id) THEN << cat[IndexOf(cat, persona_id)] >> ELSE <<>>

\* PersonaManager._generate_persona_id: the slug, or the slug with the first
\* free counter
manager_persona_id(cat, name) ==
    LET base_id == Slug(name)
    IN  IF ~HasId(cat, base_id) THEN base_id
        ELSE base_id \o "_" \o
             ToString(CHOOSE c \in 1..(Len(cat) + 1) :
                        /\ ~HasId(cat, base_id \o "_" \o ToString(c))
                        /\ \A b \in 1..(c - 1) : HasId(cat, base_id \o "_" \o ToString(b)))

\* PersonaManager.create_persona for a record that has the required fields;
\* save_ok is FALSE when writing personas.json fails
create_persona(cat, persona_data, save_ok) ==
    LET persona_id == manager_persona_id(cat, persona_data.name)
    IN  IF HasId(cat, persona_id)
        THEN [ success |-> FALSE, message |-> "already exists", catalog |-> cat ]
        ELSE IF save_ok
             THEN [ success |-> TRUE, message |-> persona_id,
                    catalog |-> save_persona(cat, persona_id, persona_data) ]
             ELSE [ success |-> FALSE, message |-> "Failed to save persona",
                    catalog |-> cat ]

\* PersonaManager._create_default_personas
default_personas ==
    << [ id |-> "tech_expert", name |-> <<"tech", "expert">>,
         expertise |-> <<"python", "machine learning", "software architecture",
                         "api design">>,
         communication_style |-> <<"professional", "and", "technical">>,
         context |-> <<"use", "when", "discussing", "technical", "implementation",
                       "details", "code", "reviews", "or", "system", "design">>,
         personality_traits |-> <<"analytical", "detail-oriented", "problem-solver">>,
         auto_generated |-> FALSE ],
       [ id |-> "creative_writer", name |-> <<"creative", "writer">>,
         expertise |-> <<"creative writing", "storytelling", "content creation",
                         "marketing copy">>,
         communication_style |-> <<"engaging", "and", "imaginative">>,
         context |-> <<"use", "when", "creating", "stories", "marketing", "content",
                       "or", "creative", "writing", "projects">>,
         personality_traits |-> <<"creative", "imaginative", "expressive">>,
         auto_generated |-> FALSE ],
       [ id |-> "business_analyst", name |-> <<"business", "analyst">>,
         expertise |-> <<"business analysis", "data analysis",
                         "process optimization", "market research">>,
         communication_style |-> <<"strategic", "and", "analytical">>,
         context |-> <<"use", "when", "analyzing", "business", "processes", "market",
                       "trends", "or", "strategic", "planning">>,
         personality_traits |-> <<"strategic", "analytical", "business-focused">>,
         auto_generated |-> FALSE ],
       [ id |-> "educator", name |-> <<"educator">>,
         expertise |-> <<"education", "curriculum design", "instructional design",
                         "learning theory">>,
         communication_style |-> <<"patient", "and", "explanatory">>,
         context |-> <<"use", "when", "teaching", "concepts", "creating",
                       "educational", "content", "or", "explaining", "complex",
                       "topics">>,
         personality_traits |-> <<"patient", "explanatory", "encouraging">>,
         auto_generated |-> FALSE ] >>

\* PersonaManager._load_default_personas: an empty store gets the defaults
_load_default_personas(stored) ==
    IF Len(stored) = 0 THEN default_personas ELSE stored

\* get_all_personas, were it to re-create the defaults for an empty store
get_all_personas_reloading(cat) == _load_default_personas(cat)

\* PersonaManager.get_all_personas: whatever the store holds
get_all_personas(cat) == cat

----------------------------------------------------------------------------
(* Inputs                                                                  *)

TaskWords == { "code", "zzz" }

\* task descriptions: 1..MaxTaskWords words
Tasks == UNION { [1..n -> TaskWords] : n \in 1..MaxTaskWords }

\* the optional context string of select_persona
Contexts == { <<>>, <<"developer">> }

\* project_name argument; "" stands for None
NoProject == ""
Projects == { NoProject, "other-project" }

\* CONTEXT_PROJECT_NAME default
DefaultProject == "persona-manager-mcp"

\* what personas.json holds when the manager is constructed: nothing, or a
\* persona a user stored earlier
stored_tech_expert ==
    [ id |-> "tech_expert", name |-> <<"tech", "expert">>,
      expertise |-> <<"code">>,
      communication_style |-> <<"professional", "and", "technical">>,
      context |-> <<"code", "reviews">>,
      personality_traits |-> <<>>,
      auto_generated |-> FALSE ]

StoredCatalogs == { << stored_tech_expert >> }

\* the context service's answers for a project: no answer (exception, timeout
\* or non-200 status) or a 200 response with the project's context
Snapshots(project) ==
    { [ none |-> FALSE, name |-> project, current_goal |-> g,
        current_issues |-> <<>>, next_steps |-> <<>> ] :
      g \in { <<"code">> } }

ServiceDown == [ ok |-> FALSE, context |-> NoContext ]

Responses(project) ==
    { ServiceDown } \cup { [ ok |-> TRUE, context |-> s ] : s \in Snapshots(project) }

\* arguments of set_confidence_threshold: below, at the ends of, and above [0,1]
ThresholdInputs == { 0 - SUB, 0, ONE, ONE + SUB }

----------------------------------------------------------------------------
(* Dispatcher state after construction                                     *)

\* the result slot before any operation
NoOp == [ op |-> "none" ]

Init ==
    /\ catalog \in { _load_default_personas(s) : s \in StoredCatalogs }
    /\ task_history = <<>>
    /\ persona_usage_stats = <<>>
    /\ feedback_history = <<>>
    /\ performance_metrics = <<>>
    /\ auto_generation_enabled = TRUE
    /\ confidence_threshold = (3 * ONE) \div 10
    /\ project_name = DefaultProject
    /\ cache = EmptyCache
    /\ now = 0
    /\ last = NoOp
    /\ probe = NoOp

----------------------------------------------------------------------------
(* PersonaDispatcher.select_persona                                        *)

RECURSIVE Gcd(_, _)
Gcd(a, b) == IF b = 0 THEN a ELSE Gcd(b, a % b)

\* the fraction n/d in lowest terms, d > 0, n >= 0
Frac(n, d) == IF n = 0 THEN << 0, 1 >> ELSE << n \div Gcd(n, d), d \div Gcd(n, d) >>

\* score *= 1.5
Boost(score) == (score * 3) \div 2

\* persona_scores: one entry per catalog persona, in catalog order
ScoreEntries(cat, task_context, task_category, recommended) ==
    [ i \in 1..Len(cat) |->
        LET r == _calculate_persona_score(cat[i], task_context, task_category)
            rec == cat[i].id \in recommended
        IN  [ persona_id   |-> cat[i].id,
              persona_data |-> cat[i],
              raw          |-> r.score,
              recommended  |-> rec,
              score        |-> IF rec THEN Boost(r.score) ELSE r.score ] ]

\* an insertion that puts x before the entries of equal score
InsertDesc_unstable(sorted, x) ==
    LET k == Cardinality({ i \in 1..Len(sorted) : sorted[i].score > x.score })
    IN  SubSeq(sorted, 1, k) \o << x >> \o SubSeq(sorted, k + 1, Len(sorted))

\* list.sort(key=score, reverse=True): stable, descending
InsertDesc(sorted, x) ==
    LET k == Cardinality({ i \in 1..Len(sorted) : sorted[i].score >= x.score })
    IN  SubSeq(sorted, 1, k) \o << x >> \o SubSeq(sorted, k + 1, Len(sorted))

RECURSIVE SortDesc(_)
SortDesc(s) ==
    IF Len(s) = 0 THEN <<>>
    ELSE InsertDesc(SortDesc(SubSeq(s, 1, Len(s) - 1)), s[Len(s)])

\* _count_generated_personas
Generated(cat) == Cardinality({ i \in 1..Len(cat) : cat[i].auto_generated })

\* the generation test with "<=" for "<"
ShouldGenerate_at_threshold(enabled, best_score, threshold) ==
    enabled /\ best_score <= threshold

\* the generation test without the auto_generation_enabled flag
ShouldGenerate_ignoring_flag(enabled, best_score, threshold) == best_score < threshold

\* whether select_persona calls the generator
ShouldGenerate(enabled, best_score, threshold) == enabled /\ best_score < threshold

\* the usage statistics with the old average weighted by the new count
UpdateUsage_overweighted(stats, persona_id, confidence_score, category) ==
    LET old == IF persona_id \in DOMAIN stats THEN stats[persona_id]
               ELSE [ usage_count |-> 0, avg_confidence |-> << 0, 1 >>,
                      task_categories |-> <<>> ]
        count == old.usage_count + 1
        new == [ usage_count |-> count,
                 avg_confidence |->
                     Frac(old.avg_confidence[1] * count
                              + confidence_score * old.avg_confidence[2],
                          old.avg_confidence[2] * count),
                 task_categories |-> old.task_categories ]
    IN  IF persona_id \in DOMAIN stats
        THEN [ stats EXCEPT ![persona_id] = new ]
        ELSE (persona_id :> new) @@ stats

\* the usage statistics rebuilt with the logged persona alone
UpdateUsage_forgetting(stats, persona_id, confidence_score, category) ==
    LET old == IF persona_id \in DOMAIN stats THEN stats[persona_id]
               ELSE [ usage_count |-> 0, avg_confidence |-> << 0, 1 >>,
                      task_categories |-> <<>> ]
        count == old.usage_count + 1
        new == [ usage_count |-> count,
                 avg_confidence |->
                     Frac(old.avg_confidence[1] * (count - 1)
                              + confidence_score * old.avg_confidence[2],
                          old.avg_confidence[2] * count),
                 task_categories |->
                     IF category \in DOMAIN old.task_categories
                     THEN [ old.task_categories EXCEPT ![category] = @ + 1 ]
                     ELSE (category :> 1) @@ old.task_categories ]
    IN  (persona_id :> new)

\* _log_persona_selection: the usage statistics after logging a selection
UpdateUsage(stats, persona_id, confidence_score, category) ==
    LET old == IF persona_id \in DOMAIN stats THEN stats[persona_id]
               ELSE [ usage_count |-> 0, avg_confidence |-> << 0, 1 >>,
                      task_categories |-> <<>> ]
        count == old.usage_count + 1
        avg == Frac(old.avg_confidence[1] * (count - 1)
                        + confidence_score * old.avg_confidence[2],
                    old.avg_confidence[2] * count)
        cats == IF category \in DOMAIN old.task_categories
                THEN [ old.task_categories EXCEPT ![category] = @ + 1 ]
                ELSE (category :> 1) @@ old.task_categories
        new == [ usage_count |-> count, avg_confidence |-> avg,
                 task_categories |-> cats ]
    IN  IF persona_id \in DOMAIN stats
        THEN [ stats EXCEPT ![persona_id] = new ]
        ELSE (persona_id :> new) @@ stats

\* the user_context carries the "Project Context:" text of the insights
HasProjectContext(task_context) ==
    \E i \in 1..(Len(task_context.user_context) - 1) :
        /\ task_context.user_context[i] = "project"
        /\ task_context.user_context[i + 1] = "context"

\* The steps of select_persona in the order of the code, each handing what
\* it computed to the next; the last yields the outcome and the state the
\* call leaves.  Writing personas.json succeeds.

\* the recommendation object, the log entry and the return
Recommend(pn, new_cache, task_context, task_category, persona_scores, generate, generated, created) ==
    LET best_existing == persona_scores[1]
        gen_score == IF created.success
                     THEN _calculate_persona_score(generated[1], task_context,
                                                   task_category).score
                     ELSE 0
        alternatives == SubSeq(persona_scores, 2, MinOf(4, Len(persona_scores)))
        common == [ op |-> "select_persona" ]
    IN  IF created.success /\ gen_score > best_existing.score
        \* generated_persona = None; generated_persona['name'] in the log call
        THEN [ result |-> common @@
                   [ outcome |-> "TypeError",
                     generation_attempted |-> TRUE,
                     best_existing_score |-> best_existing.score,
                     generated_id |-> generated[1].id,
                     generated_score |-> gen_score ],
               project_name |-> pn, cache |-> new_cache,
               catalog |-> created.catalog,
               task_history |-> task_history,
               persona_usage_stats |-> persona_usage_stats ]
        ELSE [ result |-> common @@
                   [ outcome |-> "returned",
                     persona_id |-> best_existing.persona_id,
                     \* "if generated_persona:" after the generation block
                     persona_data |->
                         IF Len(generated) > 0
                         THEN [ best_existing.persona_data EXCEPT !.auto_generated = TRUE ]
                         ELSE best_existing.persona_data,
                     confidence_score |-> best_existing.score,
                     raw_score |-> best_existing.raw,
                     recommended |-> best_existing.recommended,
                     alternative_personas |->
                         [ i \in 1..Len(alternatives) |-> alternatives[i].persona_id ],
                     \* persona_scores after the sort
                     ranking |->
                         [ i \in 1..Len(persona_scores) |->
                             [ persona_id |-> persona_scores[i].persona_id,
                               score |-> persona_scores[i].score ] ],
                     \* persona_scores[1:4] with the scores the sort used
                     runner_ups |->
                         [ i \in 1..Len(alternatives) |->
                             [ persona_id |-> alternatives[i].persona_id,
                               score |-> alternatives[i].score ] ],
                     task_category |-> task_category,
                     \* the TaskContext the personas were scored against
                     reanalyzed |-> HasProjectContext(task_context),
                     reanalyzed_category |-> classify_task(task_context),
                     generation_attempted |-> generate,
                     best_existing_score |-> best_existing.score,
                     generated_id |-> IF Len(generated) > 0 THEN generated[1].id ELSE "",
                     generated_score |-> gen_score ],
               project_name |-> pn, cache |-> new_cache,
               catalog |-> created.catalog,
               task_history |->
                   Append(task_history,
                          [ task_category |-> task_category,
                            selected_persona |-> best_existing.persona_id,
                            confidence_score |-> best_existing.score,
                            domain |-> task_context.domain ]),
               persona_usage_stats |->
                   UpdateUsage(persona_usage_stats, best_existing.persona_id,
                               best_existing.score, task_category) ]

\* persona_manager.create_persona(generated_persona) when one was generated
SaveGenerated(pn, new_cache, task_context, task_category, persona_scores, generate, generated) ==
    Recommend(pn, new_cache, task_context, task_category, persona_scores,
              generate, generated,
              IF Len(generated) > 0
              THEN create_persona(get_all_personas(catalog), generated[1], TRUE)
              ELSE [ success |-> FALSE, message |-> "", catalog |-> catalog ])

\* the generation test on the top-ranked persona and the generator call
ConsiderGeneration(pn, new_cache, task_context, task_category, persona_scores) ==
    SaveGenerated(pn, new_cache, task_context, task_category, persona_scores,
                  ShouldGenerate(auto_generation_enabled, persona_scores[1].score,
                                 confidence_threshold),
                  IF ShouldGenerate(auto_generation_enabled, persona_scores[1].score,
                                    confidence_threshold)
                  THEN generate_persona_for_task(task_context, task_category, now)
                  ELSE <<>>)

\* get_all_personas, the empty-catalog error, scoring and sorting
RankPersonas(pn, new_cache, task_context, task_category, recommended) ==
    IF Len(get_all_personas(catalog)) = 0
    THEN [ result |-> [ op |-> "select_persona", outcome |-> "ValueError" ],
           project_name |-> pn, cache |-> new_cache, catalog |-> catalog,
           task_history |-> task_history,
           persona_usage_stats |-> persona_usage_stats ]
    ELSE ConsiderGeneration(pn, new_cache, task_context, task_category,
                            SortDesc(ScoreEntries(get_all_personas(catalog),
                                                  task_context, task_category,
                                                  recommended)))

\* the second analyze_task, on the context enhanced with the insights
EnhanceContext(pn, new_cache, task_description, context, first_pass, task_category, context_analysis) ==
    RankPersonas(pn, new_cache,
                 IF Len(context_analysis.context_insights) > 0
                 THEN analyze_task(task_description,
                                   context \o <<"project", "context">>
                                           \o Flatten(context_analysis.context_insights))
                 ELSE first_pass,
                 task_category, context_analysis.recommended_personas)

\* project: the project_name argument; response: the context service's
\* answer if it is asked
select_persona(task_description, context, project, response) ==
    LET first_pass == analyze_task(task_description, context)
        fetched == get_project_context(cache, now, FALSE, response)
    IN  EnhanceContext(IF project # NoProject THEN project ELSE project_name,
                       fetched.cache, task_description, context, first_pass,
                       classify_task(first_pass),
                       analyze_context_for_task(fetched.context, task_description))

SelectPersona ==
    /\ Len(task_history) < MaxHistory \/ Len(catalog) = 0
    /\ \E task_description \in Tasks, context \in Contexts, project \in Projects :
        \E response \in Responses(IF project # NoProject THEN project ELSE project_name) :
          \E r \in { select_persona(task_description, context, project, response) } :
            /\ Generated(r.catalog) <= MaxGenerated
            /\ last' = r.result
            /\ project_name' = r.project_name
            /\ cache' = r.cache
            /\ catalog' = r.catalog
            /\ task_history' = r.task_history
            /\ persona_usage_stats' = r.persona_usage_stats
            /\ UNCHANGED << feedback_history, performance_metrics,
                            auto_generation_enabled, confidence_threshold, now, probe >>

----------------------------------------------------------------------------
(* The other dispatcher and manager operations                             *)

\* PersonaDispatcher.enable_auto_generation
EnableAutoGeneration ==
    \E enabled \in BOOLEAN :
        /\ auto_generation_enabled' = enabled
        /\ last' = [ op |-> "enable_auto_generation", outcome |-> "returned" ]
        /\ UNCHANGED << catalog, task_history, persona_usage_stats, feedback_history,
                        performance_metrics, confidence_threshold, project_name,
                        cache, now, probe >>

\* the range test with the end points excluded
ThresholdAccepted_open(threshold) == 0 < threshold /\ threshold < ONE

\* 0.0 <= threshold <= 1.0
ThresholdAccepted(threshold) == 0 <= threshold /\ threshold <= ONE

\* PersonaDispatcher.set_confidence_threshold
SetConfidenceThreshold ==
    \E threshold \in ThresholdInputs :
        /\ IF ThresholdAccepted(threshold)
           THEN /\ confidence_threshold' = threshold
                /\ last' = [ op |-> "set_confidence_threshold", outcome |-> "returned",
                             threshold |-> threshold ]
           ELSE /\ confidence_threshold' = confidence_threshold
                /\ last' = [ op |-> "set_confidence_threshold", outcome |-> "ValueError",
                             threshold |-> threshold ]
        /\ UNCHANGED << catalog, task_history, persona_usage_stats, feedback_history,
                        performance_metrics, auto_generation_enabled, project_name,
                        cache, now, probe >>

FeedbackTasks == { <<"code">> }
FeedbackPersonas == { "tech_expert" }
FeedbackScores == { 1, 5 }

RECURSIVE SeqSum(_)
SeqSum(s) == IF Len(s) = 0 THEN 0 ELSE Head(s) + SeqSum(Tail(s))

\* the metrics with success counted as feedback > 4
UpdateMetrics_strict_success(metrics, selected_persona, feedback_score) ==
    LET old == IF selected_persona \in DOMAIN metrics THEN metrics[selected_persona]
               ELSE [ total_selections |-> 0, total_feedback |-> 0,
                      average_feedback |-> << 0, 1 >>, feedback_scores |-> <<>>,
                      success_rate |-> << 0, 1 >> ]
        scores == Append(old.feedback_scores, feedback_score)
        new == [ total_selections |-> old.total_selections + 1,
                 total_feedback   |-> old.total_feedback + 1,
                 average_feedback |-> Frac(SeqSum(scores), Len(scores)),
                 feedback_scores  |-> scores,
                 success_rate     |->
                     Frac(Cardinality({ i \in 1..Len(scores) : scores[i] > 4 }),
                          Len(scores)) ]
    IN  IF selected_persona \in DOMAIN metrics
        THEN [ metrics EXCEPT ![selected_persona] = new ]
        ELSE (selected_persona :> new) @@ metrics

\* the metrics of one persona after one more feedback score
UpdateMetrics(metrics, selected_persona, feedback_score) ==
    LET old == IF selected_persona \in DOMAIN metrics THEN metrics[selected_persona]
               ELSE [ total_selections |-> 0, total_feedback |-> 0,
                      average_feedback |-> << 0, 1 >>, feedback_scores |-> <<>>,
                      success_rate |-> << 0, 1 >> ]
        scores == Append(old.feedback_scores, feedback_score)
        successful_feedback == Cardinality({ i \in 1..Len(scores) : scores[i] >= 4 })
        new == [ total_selections |-> old.total_selections + 1,
                 total_feedback   |-> old.total_feedback + 1,
                 average_feedback |-> Frac(SeqSum(scores), Len(scores)),
                 feedback_scores  |-> scores,
                 success_rate     |-> Frac(successful_feedback, Len(scores)) ]
    IN  IF selected_persona \in DOMAIN metrics
        THEN [ metrics EXCEPT ![selected_persona] = new ]
        ELSE (selected_persona :> new) @@ metrics

\* PersonaDispatcher.record_feedback
RecordFeedback ==
    \E task_description \in FeedbackTasks, selected_persona \in FeedbackPersonas,
       feedback_score \in FeedbackScores :
        /\ Len(feedback_history) < MaxFeedback
        /\ feedback_history' =
               Append(feedback_history,
                      [ task_description |-> task_description,
                        selected_persona |-> selected_persona,
                        feedback_score |-> feedback_score,
                        feedback_comment |-> "",
                        task_category |->
                            classify_task(analyze_task(task_description, <<>>)) ])
        /\ performance_metrics' =
               UpdateMetrics(performance_metrics, selected_persona, feedback_score)
        /\ last' = [ op |-> "record_feedback", outcome |-> "returned" ]
        /\ UNCHANGED << catalog, task_history, persona_usage_stats,
                        auto_generation_enabled, confidence_threshold, project_name,
                        cache, now, probe >>

\* PersonaManager.delete_persona
DeletePersona ==
    \E persona_id \in Range([ i \in 1..Len(catalog) |-> catalog[i].id ]) \cup {"missing"} :
        /\ catalog' = storage_delete_persona(catalog, persona_id)
        /\ last' = [ op |-> "delete_persona", persona_id |-> persona_id,
                     success |-> HasId(catalog, persona_id),
                     message |-> IF HasId(catalog, persona_id)
                                 THEN "Persona deleted successfully"
                                 ELSE "not found" ]
        /\ UNCHANGED << task_history, persona_usage_stats, feedback_history,
                        performance_metrics, auto_generation_enabled,
                        confidence_threshold, project_name, cache, now, probe >>

Next ==
    \/ SelectPersona
    \/ EnableAutoGeneration
    \/ SetConfidenceThreshold
    \/ RecordFeedback
    \/ DeletePersona

Spec == Init /\ [][Next]_vars

----------------------------------------------------------------------------
(* _calculate_persona_score on its own: one call per behaviour             *)

ProbeWords == { "code", "python", "zzz" }

ProbeTasks == UNION { [1..n -> ProbeWords] : n \in 1..MaxTaskWords }

\* a record whose fields are all empty
blank_persona ==
    [ id |-> "blank", name |-> <<>>, expertise |-> <<>>,
      communication_style |-> <<>>, context |-> <<>>,
      personality_traits |-> <<>>, auto_generated |-> FALSE ]

\* a record with two single-word expertise entries
python_coder ==
    [ stored_tech_expert EXCEPT !.id = "python_coder",
                                !.name = <<"python", "coder">>,
                                !.expertise = <<"python", "code">> ]

ProbePersonas ==
    Range(default_personas) \cup { stored_tech_expert, python_coder, blank_persona }

\* TaskCategory
TaskCategories ==
    { category_keywords[i].label : i \in 1..Len(category_keywords) } \cup { "general" }

ScoreInit ==
    /\ catalog = default_personas
    /\ task_history = <<>>
    /\ persona_usage_stats = <<>>
    /\ feedback_history = <<>>
    /\ performance_metrics = <<>>
    /\ auto_generation_enabled = TRUE
    /\ confidence_threshold = (3 * ONE) \div 10
    /\ project_name = DefaultProject
    /\ cache = EmptyCache
    /\ now = 0
    /\ last = NoOp
    /\ probe \in { [ op |-> "input", persona_data |-> p,
                     task_context |-> analyze_task(t, c), task_category |-> k ] :
                   p \in ProbePersonas, t \in ProbeTasks, c \in Contexts,
                   k \in TaskCategories }

ScorePersona ==
    /\ probe.op = "input"
    /\ probe' = [ op |-> "scored", persona_data |-> probe.persona_data,
                  task_context |-> probe.task_context,
                  task_category |-> probe.task_category,
                  result |-> _calculate_persona_score(probe.persona_data,
                                                      probe.task_context,
                                                      probe.task_category) ]
    /\ UNCHANGED << catalog, task_history, persona_usage_stats, feedback_history,
                    performance_metrics, auto_generation_enabled,
                    confidence_threshold, project_name, cache, now, last >>

ScoreNext == ScorePersona

SpecScore == ScoreInit /\ [][ScoreNext]_vars

----------------------------------------------------------------------------
(* Properties                                                              *)

\* C1: every confidence_score that select_persona returned or appended to
\* task_history, and every persona_usage_stats[p].avg_confidence, lies in
\* [0,1].
ConfidenceInUnitInterval ==
    /\ \A i \in 1..Len(task_history) :
           /\ 0 <= task_history[i].confidence_score
           /\ task_history[i].confidence_score <= ONE
    /\ \A p \in DOMAIN persona_usage_stats :
           /\ 0 <= persona_usage_stats[p].avg_confidence[1]
           /\ persona_usage_stats[p].avg_confidence[1]
                  <= ONE * persona_usage_stats[p].avg_confidence[2]
    /\ (last.op = "select_persona" /\ last.outcome = "returned")
           => (0 <= last.confidence_score /\ last.confidence_score <= ONE)

\* C2: the reported confidence of a recommended persona is
\* min(1.0, 1.5 x raw_score), that of any other persona is raw_score, and the
\* boosted score is never below raw_score.
BoostIsClamped ==
    (last.op = "select_persona" /\ last.outcome = "returned") =>
        /\ last.recommended =>
               last.confidence_score = MinOf(ONE, (3 * last.raw_score) \div 2)
        /\ ~last.recommended => last.confidence_score = last.raw_score
        /\ last.confidence_score >= last.raw_score

\* C3: _calculate_persona_score returns a score in [0,1]: each of the five
\* sub-scores is in [0,1] and the result is their weighted sum with weights
\* 0.35, 0.25, 0.20, 0.15, 0.05, capped at 1.0.
ScoreIsCappedWeightedSum ==
    probe.op = "scored" =>
        LET r == probe.result
        IN  /\ \A s \in { r.expertise, r.category, r.context, r.style, r.trait } :
                   0 <= s /\ s <= SUB
            /\ 0 <= r.score /\ r.score <= ONE
            /\ r.score = MinOf(14 * r.expertise + 10 * r.category + 8 * r.context
                                   + 6 * r.style + 2 * r.trait, 40 * SUB)

\* C3 case: a persona that matches the task on expertise and scores above 0.5
ScoreWitness ==
    /\ probe.op = "scored"
    /\ probe.result.expertise = SUB
    /\ probe.result.context > 0
    /\ 2 * probe.result.score > ONE

\* C4: a select_persona call on a non-empty catalog attempts generation iff
\* auto_generation_enabled is true and the top-ranked existing persona's score
\* is strictly below confidence_threshold at the time of the call.
GenerationIffEnabledAndBelow ==
    [][ (last'.op = "select_persona" /\ Len(catalog) > 0) =>
            (last'.generation_attempted <=>
                 (auto_generation_enabled
                      /\ last'.best_existing_score < confidence_threshold)) ]_vars

\* C4 case: a call that attempted generation and returned
GenerationWitness ==
    /\ last.op = "select_persona"
    /\ last.outcome = "returned"
    /\ last.generation_attempted
    /\ last.generated_id # ""
    /\ auto_generation_enabled
    /\ last.best_existing_score < confidence_threshold

\* C5: while auto_generation_enabled is false, a select_persona call leaves
\* the catalog as it was, whatever the scores and the threshold.
DisabledLeavesCatalog ==
    [][ (last'.op = "select_persona" /\ ~auto_generation_enabled) =>
            catalog' = catalog ]_vars

\* C5 case: generation disabled and the best score below the threshold
DisabledWitness ==
    /\ last.op = "select_persona"
    /\ last.outcome = "returned"
    /\ ~auto_generation_enabled
    /\ last.best_existing_score < confidence_threshold
    /\ ~last.generation_attempted

\* C6: when generation runs and the generated persona's score is strictly
\* greater than the prior best, select_persona returns the generated persona
\* and does not list it among the alternatives.
GeneratedWinnerIsReturned ==
    (/\ last.op = "select_persona"
     /\ last.outcome # "ValueError"
     /\ last.generation_attempted
     /\ last.generated_id # ""
     /\ last.generated_score > last.best_existing_score) =>
        /\ last.outcome = "returned"
        /\ last.persona_id = last.generated_id
        /\ last.persona_data.id = last.generated_id
        /\ last.generated_id \notin Range(last.alternative_personas)

\* C20: when generation runs inside select_persona and the generated
\* persona's score does not exceed the prior best score, the returned
\* alternative_personas are the top 3, by descending score, of the existing
\* runners-up together with the generated persona.
GeneratedJoinsAlternatives ==
    (/\ last.op = "select_persona"
     /\ last.outcome = "returned"
     /\ last.generation_attempted
     /\ last.generated_id # ""
     /\ last.generated_score <= last.best_existing_score) =>
        LET merged == SortDesc(last.runner_ups \o
                               << [ persona_id |-> last.generated_id,
                                    score |-> last.generated_score ] >>)
        IN  last.alternative_personas =
                [ i \in 1..MinOf(3, Len(merged)) |-> merged[i].persona_id ]

\* C7: every select_persona call returns a recommendation or raises the
\* catalog error; no other exception escapes it.
OnlyCatalogErrorEscapes ==
    last.op = "select_persona" => last.outcome \in { "returned", "ValueError" }

\* C8: select_persona on a catalog that holds no personas raises ValueError
\* and leaves task_history, persona_usage_stats and the catalog unchanged.
EmptyCatalogRaises ==
    [][ (last'.op = "select_persona" /\ Len(catalog) = 0) =>
            /\ last'.outcome = "ValueError"
            /\ UNCHANGED << task_history, persona_usage_stats, catalog >> ]_vars

\* C8 case: the call was made on an emptied catalog after a logged selection
EmptyCatalogWitness ==
    /\ last.op = "select_persona"
    /\ last.outcome = "ValueError"
    /\ Len(catalog) = 0
    /\ Len(task_history) > 0

\* C9: after a select_persona call with a project given, whether it returns
\* or raises, ContextIntegration.project_name has the value it had before.
ProjectNameRestored ==
    [][ last'.op = "select_persona" => project_name' = project_name ]_vars

\* C10: set_confidence_threshold(x) raises and keeps the threshold for x
\* outside [0,1], sets it to x otherwise, and in both cases leaves
\* auto_generation_enabled, task_history, persona_usage_stats,
\* feedback_history and performance_metrics unchanged.
ThresholdSetter ==
    [][ last'.op = "set_confidence_threshold" =>
            /\ (last'.threshold < 0 \/ last'.threshold > ONE) =>
                   /\ last'.outcome = "ValueError"
                   /\ confidence_threshold' = confidence_threshold
            /\ (0 <= last'.threshold /\ last'.threshold <= ONE) =>
                   /\ last'.outcome = "returned"
                   /\ confidence_threshold' = last'.threshold
            /\ UNCHANGED << auto_generation_enabled, task_history,
                            persona_usage_stats, feedback_history,
                            performance_metrics >> ]_vars

\* C10 case: a rejected call after the threshold was changed, with a logged
\* selection and a recorded feedback in place
ThresholdWitness ==
    /\ last.op = "set_confidence_threshold"
    /\ last.outcome = "ValueError"
    /\ confidence_threshold = 0
    /\ Len(task_history) > 0
    /\ Len(feedback_history) > 0

----------------------------------------------------------------------------
(* _log_persona_selection on its own: a run of logged selections           *)

MaxLog == 3

LogPersonas == { "tech_expert", "educator" }

\* confidence scores of logged recommendations: 0, 0.125, 0.3 and a boosted
\* score above 1.0
LogScores == { 0, 5000, 12000, 46992 }

LogCategories == { "technical", "general" }

LogInit ==
    /\ catalog = default_personas
    /\ task_history = <<>>
    /\ persona_usage_stats = <<>>
    /\ feedback_history = <<>>
    /\ performance_metrics = <<>>
    /\ auto_generation_enabled = TRUE
    /\ confidence_threshold = (3 * ONE) \div 10
    /\ project_name = DefaultProject
    /\ cache = EmptyCache
    /\ now = 0
    /\ last = NoOp
    /\ probe = NoOp

LogSelection ==
    /\ Len(task_history) < MaxLog
    /\ \E persona_id \in LogPersonas, confidence_score \in LogScores,
          task_category \in LogCategories :
        /\ task_history' =
               Append(task_history,
                      [ task_category |-> task_category,
                        selected_persona |-> persona_id,
                        confidence_score |-> confidence_score,
                        domain |-> "technology" ])
        /\ persona_usage_stats' =
               UpdateUsage(persona_usage_stats, persona_id, confidence_score,
                           task_category)
        /\ last' = [ op |-> "_log_persona_selection", persona_id |-> persona_id ]
        /\ UNCHANGED << catalog, feedback_history, performance_metrics,
                        auto_generation_enabled, confidence_threshold,
                        project_name, cache, now, probe >>

LogNext == LogSelection

SpecLog == LogInit /\ [][LogNext]_vars

\* positions of the selections logged for persona p
LoggedFor(p) == { i \in 1..Len(task_history) : task_history[i].selected_persona = p }

\* sum of the confidence scores logged for persona p
RECURSIVE LoggedSum(_, _)
LoggedSum(history, p) ==
    IF Len(history) = 0 THEN 0
    ELSE (IF Head(history).selected_persona = p
             THEN Head(history).confidence_score ELSE 0)
         + LoggedSum(Tail(history), p)

\* C11: for every persona p, usage_count is the number n of selections
\* logged for p and avg_confidence is the arithmetic mean of the n
\* confidence scores logged for p.
UsageStatsAreMeans ==
    /\ DOMAIN persona_usage_stats = { p \in LogPersonas : LoggedFor(p) # {} }
    /\ \A p \in DOMAIN persona_usage_stats :
           /\ persona_usage_stats[p].usage_count = Cardinality(LoggedFor(p))
           /\ persona_usage_stats[p].avg_confidence[1] * Cardinality(LoggedFor(p))
                  = LoggedSum(task_history, p) * persona_usage_stats[p].avg_confidence[2]

\* C11 case: two personas logged, one of them twice with different scores
UsageStatsWitness ==
    /\ Len(task_history) = 3
    /\ task_history[1].selected_persona = "tech_expert"
    /\ task_history[2].selected_persona = "educator"
    /\ task_history[3].selected_persona = "tech_expert"
    /\ task_history[1].confidence_score # task_history[3].confidence_score

----------------------------------------------------------------------------
(* record_feedback on its own: a run of feedback calls for two personas    *)

MaxFeedbackRun == 3

FeedbackRunPersonas == { "tech_expert", "educator" }

FeedbackRunScores == { 1, 4, 5 }

FeedbackStep ==
    /\ Len(feedback_history) < MaxFeedbackRun
    /\ \E task_description \in FeedbackTasks, selected_persona \in FeedbackRunPersonas,
          feedback_score \in FeedbackRunScores :
        /\ feedback_history' =
               Append(feedback_history,
                      [ task_description |-> task_description,
                        selected_persona |-> selected_persona,
                        feedback_score |-> feedback_score,
                        feedback_comment |-> "",
                        task_category |->
                            classify_task(analyze_task(task_description, <<>>)) ])
        /\ performance_metrics' =
               UpdateMetrics(performance_metrics, selected_persona, feedback_score)
        /\ last' = [ op |-> "record_feedback", outcome |-> "returned",
                     selected_persona |-> selected_persona ]
        /\ UNCHANGED << catalog, task_history, persona_usage_stats,
                        auto_generation_enabled, confidence_threshold, project_name,
                        cache, now, probe >>

FeedbackNext == FeedbackStep

SpecFeedback == LogInit /\ [][FeedbackNext]_vars

\* the feedback scores recorded for persona p, in call order
RECURSIVE ScoresFor(_, _)
ScoresFor(history, p) ==
    IF Len(history) = 0 THEN <<>>
    ELSE (IF Head(history).selected_persona = p
             THEN << Head(history).feedback_score >> ELSE <<>>)
         \o ScoresFor(Tail(history), p)

\* every persona with feedback has its scores in call order, their mean and
\* the fraction of them that are >= 4
MetricsMatchHistory ==
    /\ DOMAIN performance_metrics =
           { p \in FeedbackRunPersonas : Len(ScoresFor(feedback_history, p)) > 0 }
    /\ \A p \in DOMAIN performance_metrics :
           LET scores == ScoresFor(feedback_history, p)
               pm == performance_metrics[p]
           IN  /\ pm.feedback_scores = scores
               /\ pm.average_feedback[1] * Len(scores)
                      = SeqSum(scores) * pm.average_feedback[2]
               /\ pm.success_rate[1] * Len(scores)
                      = Cardinality({ i \in 1..Len(scores) : scores[i] >= 4 })
                            * pm.success_rate[2]

\* C12: after any sequence of record_feedback calls, for every persona p
\* with feedback, feedback_scores is the list of p's scores in call order,
\* average_feedback is their mean and success_rate the fraction >= 4; a call
\* for p leaves the metrics of every other persona unchanged.
FeedbackMetrics ==
    /\ []MetricsMatchHistory
    /\ [][ last'.op = "record_feedback" =>
               \A q \in DOMAIN performance_metrics \ { last'.selected_persona } :
                   /\ q \in DOMAIN performance_metrics'
                   /\ performance_metrics'[q] = performance_metrics[q] ]_vars

\* C12 case: scores 5 then 1 for one persona give average 3.0 and success
\* rate 0.5, with a call for another persona in between
FeedbackWitness ==
    /\ Len(feedback_history) = 3
    /\ feedback_history[2].selected_persona = "educator"
    /\ "tech_expert" \in DOMAIN performance_metrics
    /\ performance_metrics["tech_expert"].feedback_scores = << 5, 1 >>
    /\ performance_metrics["tech_expert"].average_feedback = << 3, 1 >>
    /\ performance_metrics["tech_expert"].success_rate = << 1, 2 >>

----------------------------------------------------------------------------
(* ContextIntegration on its own: the clock, the cache and the calls that  *)
(* read the project context                                                *)

\* the instants at which calls are made, in seconds
Instants == { 0, 1, 299, 300, 301, 600 }

ContextTasks == { <<"code">>, <<"zzz">> }

ContextProjects == { DefaultProject, "other-project" }

\* time passes between two calls
Tick ==
    /\ \E t \in Instants : t > now /\ now' = t
    /\ UNCHANGED << catalog, task_history, persona_usage_stats, feedback_history,
                    performance_metrics, auto_generation_enabled,
                    confidence_threshold, project_name, cache, last, probe >>

\* ContextIntegration.get_project_context(force_refresh)
GetProjectContext ==
    \E force_refresh \in BOOLEAN, response \in Responses(project_name) :
        \E r \in { get_project_context(cache, now, force_refresh, response) } :
            /\ cache' = r.cache
            /\ probe' = [ op |-> "get_project_context",
                          project |-> project_name,
                          force_refresh |-> force_refresh,
                          contacted |-> r.fetched,
                          response |-> response,
                          context |-> r.context ]
            /\ UNCHANGED << catalog, task_history, persona_usage_stats,
                            feedback_history, performance_metrics,
                            auto_generation_enabled, confidence_threshold,
                            project_name, now, last >>

\* ContextIntegration.analyze_context_for_task(task)
AnalyzeContextForTask ==
    \E task \in ContextTasks, response \in Responses(project_name) :
        \E r \in { get_project_context(cache, now, FALSE, response) } :
            /\ cache' = r.cache
            /\ probe' = [ op |-> "analyze_context_for_task",
                          project |-> project_name,
                          contacted |-> r.fetched,
                          response |-> response,
                          context |-> r.context,
                          result |-> analyze_context_for_task(r.context, task) ]
            /\ UNCHANGED << catalog, task_history, persona_usage_stats,
                            feedback_history, performance_metrics,
                            auto_generation_enabled, confidence_threshold,
                            project_name, now, last >>

\* PersonaDispatcher.get_context_summary_for_project(project_name): the
\* project name is switched, the context read, the project name restored
GetContextSummaryForProject ==
    \E project \in ContextProjects :
      \E response \in Responses(project) :
        \E r \in { get_project_context(cache, now, FALSE, response) } :
            /\ cache' = r.cache
            /\ project_name' = project_name
            /\ probe' = [ op |-> "get_context_summary_for_project",
                          project |-> project,
                          contacted |-> r.fetched,
                          response |-> response,
                          context |-> r.context ]
            /\ UNCHANGED << catalog, task_history, persona_usage_stats,
                            feedback_history, performance_metrics,
                            auto_generation_enabled, confidence_threshold,
                            now, last >>

ContextNext ==
    \/ Tick
    \/ GetProjectContext
    \/ AnalyzeContextForTask
    \/ GetContextSummaryForProject

SpecContext == LogInit /\ [][ContextNext]_vars

\* C13: when the context service is unreachable, times out or answers with
\* a non-success status, analyze_context_for_task returns the neutral
\* default record with all six fields.
NeutralDefaultComplete ==
    (/\ probe.op = "analyze_context_for_task"
     /\ probe.contacted
     /\ ~probe.response.ok) =>
        /\ probe.result.all_fields
        /\ probe.result.priority = "medium"
        /\ probe.result.domain = "general"
        /\ probe.result.urgency = "normal"
        /\ probe.result.context_relevance = 0
        /\ probe.result.recommended_personas = {}
        /\ probe.result.context_insights = <<>>

\* C18: get_project_context(force_refresh=false) called less than 300
\* seconds after the last successful fetch returns the cached snapshot
\* without contacting the context service; called 300 seconds or more after
\* it, or with force_refresh=true, it contacts the service, and a successful
\* response replaces the cached snapshot and resets the timestamp.
CacheHonoursTtl ==
    [][ ( probe'.op = "get_project_context" /\ now' = now ) =>
          /\ ( /\ ~probe'.force_refresh
               /\ cache.has_timestamp
               /\ now - cache.timestamp < 300 )
             => /\ ~probe'.contacted
                /\ probe'.context = cache.context
                /\ cache' = cache
          /\ ( \/ probe'.force_refresh
               \/ ~cache.has_timestamp
               \/ now - cache.timestamp >= 300 )
             => /\ probe'.contacted
                /\ probe'.response.ok =>
                       /\ probe'.context = probe'.response.context
                       /\ cache'.has_timestamp
                       /\ cache'.context = probe'.response.context
                       /\ cache'.timestamp = now ]_vars

\* C18 case: a call without force_refresh 299 seconds after the fetch was
\* answered from the cache
CacheWitness ==
    /\ probe.op = "get_project_context"
    /\ ~probe.force_refresh
    /\ ~probe.contacted
    /\ cache.has_timestamp
    /\ now - cache.timestamp = 299
    /\ probe.context = cache.context

\* C19: the context cache is per project identifier: whenever a snapshot is
\* returned while project_name is P, that snapshot was fetched for P, also
\* when project_name was switched from another project less than 300
\* seconds after that project's snapshot was cached.
CachePerProject ==
    ( /\ probe.op \in { "get_project_context", "analyze_context_for_task",
                        "get_context_summary_for_project" }
      /\ ~probe.context.none )
    => probe.context.name = probe.project

----------------------------------------------------------------------------
(* Analytics: the selection log, feedback, task completion and the         *)
(* aggregates computed from them                                           *)

MaxAnalyticsLog == 2

MaxAnalyticsFeedback == 1

\* entry.get(key, default)
EntryGet(entry, key, default) == IF key \in DOMAIN entry THEN entry[key] ELSE default

\* the dict built by counting entry.get(key, "unknown") over the history
CountBy(history, key) ==
    [ v \in { EntryGet(history[i], key, "unknown") : i \in 1..Len(history) } |->
        Cardinality({ i \in 1..Len(history) :
                        EntryGet(history[i], key, "unknown") = v }) ]

\* sum(entry.get("confidence_score", 0.0) for entry in task_history)
RECURSIVE ConfidenceSum(_)
ConfidenceSum(history) ==
    IF Len(history) = 0 THEN 0
    ELSE EntryGet(Head(history), "confidence_score", 0) + ConfidenceSum(Tail(history))

\* task_history[-10:]
RecentSelections(history) ==
    IF Len(history) > 10 THEN SubSeq(history, Len(history) - 9, Len(history)) ELSE history

\* the per-persona metrics and the feedback summary
get_performance_metrics(metrics, feedback) ==
    [ persona_performance |-> metrics,
      total_feedback |-> Len(feedback),
      average_feedback |->
          IF Len(feedback) = 0 THEN << 0, 1 >>
          ELSE Frac(SeqSum([ i \in 1..Len(feedback) |-> feedback[i].feedback_score ]),
                    Len(feedback)) ]

get_selection_analytics(history, metrics, feedback) ==
    IF Len(history) = 0
    THEN [ total_selections |-> 0, average_confidence |-> << 0, 1 >>,
           persona_usage |-> <<>>, auto_generated_used |-> 0,
           task_categories |-> <<>>, domains |-> <<>> ]
    ELSE [ total_selections |-> Len(history),
           average_confidence |-> Frac(ConfidenceSum(history), Len(history)),
           persona_usage |-> CountBy(history, "selected_persona"),
           auto_generated_used |->
               Cardinality({ i \in 1..Len(history) :
                               EntryGet(history[i], "auto_generated", FALSE) }),
           task_categories |-> CountBy(history, "task_category"),
           domains |-> CountBy(history, "domain"),
           recent_selections |-> RecentSelections(history),
           performance_metrics |-> get_performance_metrics(metrics, feedback) ]

\* _fallback_context_update for a task with none of the feature, issue or
\* step keywords: the context is read, then the interaction is logged
_fallback_context_update(c, t, response, logged) ==
    LET r == get_project_context(c, t, FALSE, response)
    IN  [ success |-> IF r.context.none THEN FALSE ELSE logged, cache |-> r.cache ]

\* posted: the task/complete request answered 200; otherwise the fallback
update_context_from_task(c, t, posted, response, logged) ==
    IF posted THEN [ success |-> TRUE, cache |-> c ]
    ELSE _fallback_context_update(c, t, response, logged)

AnalyticsSelect ==
    /\ Len(task_history) < MaxAnalyticsLog
    /\ LogSelection

AnalyticsFeedback ==
    /\ Len(feedback_history) < MaxAnalyticsFeedback
    /\ FeedbackStep

CompleteTaskWithContextUpdate ==
    /\ Len(task_history) < MaxAnalyticsLog
    /\ \E task_description \in FeedbackTasks, persona_id \in LogPersonas,
          posted \in BOOLEAN, logged \in BOOLEAN :
        \E response \in Responses(project_name) :
          \E u \in { update_context_from_task(cache, now, posted, response, logged) } :
            /\ cache' = u.cache
            /\ task_history' =
                   Append(task_history,
                          [ task |-> task_description, result |-> <<"done">>,
                            persona_id |-> persona_id,
                            context_updated |-> u.success ])
            /\ last' = [ op |-> "complete_task_with_context_update",
                         success |-> u.success ]
            /\ UNCHANGED << catalog, persona_usage_stats, feedback_history,
                            performance_metrics, auto_generation_enabled,
                            confidence_threshold, project_name, now, probe >>

GetSelectionAnalytics ==
    /\ probe' = [ op |-> "get_selection_analytics",
                  result |-> get_selection_analytics(task_history, performance_metrics,
                                                     feedback_history) ]
    /\ UNCHANGED << catalog, task_history, persona_usage_stats, feedback_history,
                    performance_metrics, auto_generation_enabled,
                    confidence_threshold, project_name, cache, now, last >>

AnalyticsNext ==
    \/ AnalyticsSelect
    \/ AnalyticsFeedback
    \/ CompleteTaskWithContextUpdate
    \/ GetSelectionAnalytics

SpecAnalytics == LogInit /\ [][AnalyticsNext]_vars

\* the aggregate counts of an analytics result
AggregateCounts(a) ==
    [ total_selections |-> a.total_selections, persona_usage |-> a.persona_usage,
      task_categories |-> a.task_categories, domains |-> a.domains ]

\* C14: two get_selection_analytics calls with no select_persona call
\* between them return identical aggregate counts (a step that is not a
\* select_persona, which alone updates persona_usage_stats, leaves the
\* aggregate counts the call returns unchanged), and a
\* get_selection_analytics call changes no dispatcher state.
AnalyticsIdempotent ==
    [][ /\ persona_usage_stats' = persona_usage_stats =>
               AggregateCounts(get_selection_analytics(task_history', performance_metrics',
                                                       feedback_history'))
                 = AggregateCounts(get_selection_analytics(task_history, performance_metrics,
                                                           feedback_history))
        /\ probe' # probe =>
               /\ probe'.op = "get_selection_analytics"
               /\ AggregateCounts(probe'.result)
                    = AggregateCounts(get_selection_analytics(task_history,
                                                              performance_metrics,
                                                              feedback_history))
               /\ UNCHANGED << catalog, task_history, persona_usage_stats,
                               feedback_history, performance_metrics,
                               auto_generation_enabled, confidence_threshold,
                               project_name, cache >> ]_vars

----------------------------------------------------------------------------
(* PersonaManager on its own: personas are created and deleted in a        *)
(* catalog that starts with the defaults                                   *)

MaxCatalog == 5

\* names given to create_persona: a new name and the name of a default
CreateNames == { <<"test", "persona">>, <<"tech", "expert">> }

\* the dict given to create_persona, with the required fields
NewPersonaData(name) ==
    [ id |-> "", name |-> name, expertise |-> <<"testing">>,
      communication_style |-> <<>>, context |-> <<>>,
      personality_traits |-> <<>>, auto_generated |-> FALSE ]

CreatePersona ==
    /\ Len(catalog) < MaxCatalog
    /\ \E name \in CreateNames, save_ok \in BOOLEAN :
        \E r \in { create_persona(catalog, NewPersonaData(name), save_ok) } :
            /\ catalog' = r.catalog
            /\ last' = [ op |-> "create_persona", name |-> name,
                         success |-> r.success, message |-> r.message ]
            /\ UNCHANGED << task_history, persona_usage_stats, feedback_history,
                            performance_metrics, auto_generation_enabled,
                            confidence_threshold, project_name, cache, now, probe >>

CatalogNext ==
    \/ CreatePersona
    \/ DeletePersona

SpecCatalog == LogInit /\ [][CatalogNext]_vars

\* C15: create_persona with a name equal to the name of a persona already
\* in the catalog returns failure with an 'already exists' message and
\* leaves the catalog unchanged.
DuplicateNameRejected ==
    [][ ( /\ last'.op = "create_persona"
          /\ last' # last
          /\ \E i \in 1..Len(catalog) : catalog[i].name = last'.name )
        => /\ ~last'.success
           /\ last'.message = "already exists"
           /\ catalog' = catalog ]_vars

\* C16: after a successful delete_persona(id), get_persona(id) returns None
\* and every other catalog entry is unchanged; delete_persona of an id not
\* in the catalog returns failure with a 'not found' message and leaves the
\* catalog unchanged.
DeleteRemovesOnlyTarget ==
    [][ ( last'.op = "delete_persona" /\ last' # last ) =>
          /\ last'.success =>
                 /\ get_persona(catalog', last'.persona_id) = <<>>
                 /\ \A i \in 1..Len(catalog) :
                        catalog[i].id # last'.persona_id =>
                            get_persona(catalog', catalog[i].id) = << catalog[i] >>
                 /\ Len(catalog') = Len(catalog) - 1
          /\ ~HasId(catalog, last'.persona_id) =>
                 /\ ~last'.success
                 /\ last'.message = "not found"
                 /\ catalog' = catalog ]_vars

\* C16 case: a default persona stored before others has just been deleted
\* and the three other defaults are still in the catalog
DeleteWitness ==
    /\ last.op = "delete_persona"
    /\ last.success
    /\ last.persona_id = "creative_writer"
    /\ Len(catalog) >= 3
    /\ \A id \in { "tech_expert", "business_analyst", "educator" } : HasId(catalog, id)

\* C16 case: an id that is not in the catalog was given to delete_persona
DeleteMissingWitness ==
    /\ last.op = "delete_persona"
    /\ ~last.success
    /\ last.persona_id = "missing"

----------------------------------------------------------------------------
(* PersonaGenerator on its own: generate_persona_for_task is called at the *)
(* instants of the clock; probe keeps the persona of the call before       *)

GeneratePersona ==
    \E task_description \in Tasks, context \in Contexts :
        \E task_context \in { analyze_task(task_description, context) } :
            /\ probe' = [ op |-> "generate_persona_for_task",
                          previous |-> IF probe.op = "generate_persona_for_task"
                                       THEN probe.generated ELSE <<>>,
                          generated |->
                              generate_persona_for_task(task_context,
                                                        classify_task(task_context),
                                                        now) ]
            /\ UNCHANGED << catalog, task_history, persona_usage_stats,
                            feedback_history, performance_metrics,
                            auto_generation_enabled, confidence_threshold,
                            project_name, cache, now, last >>

GenerateNext ==
    \/ Tick
    \/ GeneratePersona

SpecGenerate == LogInit /\ [][GenerateNext]_vars

\* C17: any two personas produced by generate_persona_for_task receive
\* different ids, whatever the generated names and whatever the times of
\* the two calls.
GeneratedIdsDiffer ==
    ( /\ probe.op = "generate_persona_for_task"
      /\ Len(probe.previous) > 0
      /\ Len(probe.generated) > 0 )
    => probe.previous[1].id # probe.generated[1].id

----------------------------------------------------------------------------
(* select_persona on the default catalog: a run of calls for the           *)
(* configured project, with the auto-generation switch                     *)

MaxSelections == 2

SelectTasks == { <<"code">>, <<"zzz">>, <<"code", "zzz">> }

\* answers of the context service for the configured project: down, the
\* snapshots of the other specifications, and a goal that shares a word
\* with the task "zzz" and holds a keyword of the creative category
SelectResponses ==
    Responses(DefaultProject) \cup
    { [ ok |-> TRUE,
        context |-> [ none |-> FALSE, name |-> DefaultProject,
                      current_goal |-> <<"zzz", "write">>,
                      current_issues |-> <<>>, next_steps |-> <<>> ] ] }

SelectStep ==
    /\ Len(task_history) < MaxSelections
    /\ \E task_description \in SelectTasks, context \in Contexts :
        \E response \in SelectResponses :
          \E r \in { select_persona(task_description, context, NoProject, response) } :
            /\ Generated(r.catalog) <= MaxGenerated
            /\ last' = r.result
            /\ project_name' = r.project_name
            /\ cache' = r.cache
            /\ catalog' = r.catalog
            /\ task_history' = r.task_history
            /\ persona_usage_stats' = r.persona_usage_stats
            /\ UNCHANGED << feedback_history, performance_metrics,
                            auto_generation_enabled, confidence_threshold, now, probe >>

SelectNext ==
    \/ SelectStep
    \/ EnableAutoGeneration

SpecSelect == LogInit /\ [][SelectNext]_vars

\* C21: when select_persona returns without generating, the selected
\* persona has the maximum (boosted) score over all catalog personas, ties
\* are broken in favour of the persona that comes first in catalog order,
\* and alternative_personas are the next at most 3 personas in that same
\* descending stable order, never containing the selected persona.
BestIsStableMaximum ==
    (/\ last.op = "select_persona"
     /\ last.outcome = "returned"
     /\ last.generated_id = "") =>
        /\ Len(last.ranking) = Len(catalog)
        /\ \A i \in 1..Len(catalog) :
               \E k \in 1..Len(last.ranking) : last.ranking[k].persona_id = catalog[i].id
        /\ \A i \in 1..Len(last.ranking) : \A j \in (i + 1)..Len(last.ranking) :
               \/ last.ranking[i].score > last.ranking[j].score
               \/ /\ last.ranking[i].score = last.ranking[j].score
                  /\ IndexOf(catalog, last.ranking[i].persona_id)
                         < IndexOf(catalog, last.ranking[j].persona_id)
        /\ last.persona_id = last.ranking[1].persona_id
        /\ last.confidence_score = last.ranking[1].score
        /\ last.alternative_personas =
               [ i \in 1..MinOf(3, Len(last.ranking) - 1) |->
                   last.ranking[i + 1].persona_id ]
        /\ last.persona_id \notin Range(last.alternative_personas)

\* C21 case: no persona was generated, the winner ties with the persona
\* stored after it, and three alternatives are listed
StableMaximumWitness ==
    /\ last.op = "select_persona"
    /\ last.outcome = "returned"
    /\ last.generated_id = ""
    /\ Len(last.ranking) = 4
    /\ last.ranking[1].score = last.ranking[2].score
    /\ Len(last.alternative_personas) = 3

\* usage_count of persona p, 0 when p has no statistics yet
UsageCountOf(stats, p) == IF p \in DOMAIN stats THEN stats[p].usage_count ELSE 0

\* the counter of category c for persona p, 0 when there is none yet
CategoryCountOf(stats, p, c) ==
    IF p \in DOMAIN stats /\ c \in DOMAIN stats[p].task_categories
    THEN stats[p].task_categories[c] ELSE 0

\* C22: every select_persona call that returns appends exactly one entry to
\* task_history (recording the returned persona_id, confidence_score and
\* task_category), increments usage_count and the per-category counter of
\* exactly the returned persona by one, and leaves all earlier task_history
\* entries and all other personas' usage stats unchanged.
SelectionIsLoggedOnce ==
    [][ ( last'.op = "select_persona" /\ last'.outcome = "returned" ) =>
          /\ Len(task_history') = Len(task_history) + 1
          /\ SubSeq(task_history', 1, Len(task_history)) = task_history
          /\ task_history'[Len(task_history')].selected_persona = last'.persona_id
          /\ task_history'[Len(task_history')].confidence_score = last'.confidence_score
          /\ task_history'[Len(task_history')].task_category = last'.task_category
          /\ DOMAIN persona_usage_stats' = DOMAIN persona_usage_stats \cup { last'.persona_id }
          /\ UsageCountOf(persona_usage_stats', last'.persona_id)
                 = UsageCountOf(persona_usage_stats, last'.persona_id) + 1
          /\ CategoryCountOf(persona_usage_stats', last'.persona_id, last'.task_category)
                 = CategoryCountOf(persona_usage_stats, last'.persona_id,
                                   last'.task_category) + 1
          /\ \A q \in DOMAIN persona_usage_stats \ { last'.persona_id } :
                 persona_usage_stats'[q] = persona_usage_stats[q] ]_vars

\* C22 case: the second returned call selected another persona than the
\* first, so an earlier entry and another persona's statistics exist
LoggedOnceWitness ==
    /\ last.op = "select_persona"
    /\ last.outcome = "returned"
    /\ Len(task_history) = 2
    /\ task_history[1].selected_persona # task_history[2].selected_persona
    /\ task_history[2].selected_persona = last.persona_id
    /\ Cardinality(DOMAIN persona_usage_stats) = 2

\* C23: when the context analysis yields context insights, the
\* task_category in the returned recommendation is the classification of
\* the re-analyzed TaskContext (the task text together with the augmented
\* context string that includes the insight text), not of the first pass.
CategoryOfReanalyzedContext ==
    (/\ last.op = "select_persona"
     /\ last.outcome = "returned"
     /\ last.reanalyzed) =>
        last.task_category = last.reanalyzed_category

----------------------------------------------------------------------------
(* analyze_task and classify_task on their own: calls on short texts, in   *)
(* dispatcher states that differ in the auto-generation switch             *)

\* a word that is in no table, and keywords of the complexity, domain and
\* category tables
AnalyzeWords == { "zzz", "complex", "simple", "basic", "code", "write", "story" }

AnalyzeTasks == UNION { [1..n -> AnalyzeWords] : n \in 1..MaxTaskWords }

AnalyzeContexts == { <<>>, <<"basic">>, <<"story">> }

AnalyzeTask ==
    \E task_description \in AnalyzeTasks, context \in AnalyzeContexts :
        /\ probe' = [ op |-> "analyze_task",
                      text |-> task_description \o context,
                      result |-> analyze_task(task_description, context) ]
        /\ UNCHANGED << catalog, task_history, persona_usage_stats, feedback_history,
                        performance_metrics, auto_generation_enabled,
                        confidence_threshold, project_name, cache, now, last >>

ClassifyTask ==
    \E task_description \in AnalyzeTasks, context \in AnalyzeContexts :
        \E task_context \in { analyze_task(task_description, context) } :
            /\ probe' = [ op |-> "classify_task",
                          text |-> task_description \o context,
                          task_context |-> task_context,
                          result |-> classify_task(task_context) ]
            /\ UNCHANGED << catalog, task_history, persona_usage_stats,
                            feedback_history, performance_metrics,
                            auto_generation_enabled, confidence_threshold,
                            project_name, cache, now, last >>

AnalyzeNext ==
    \/ AnalyzeTask
    \/ ClassifyTask
    \/ EnableAutoGeneration

SpecAnalyze == LogInit /\ [][AnalyzeNext]_vars

\* the number of distinct keywords of group i of a table that occur in the
\* text
HitsOf(table, i, text) ==
    Cardinality({ kw \in Range(table[i].keywords) :
                    \E w \in 1..Len(text) : text[w] = kw })

\* the label the highest count selects: the first group whose count no other
\* group exceeds, or the default when every count is zero
HighestCountLabel(table, text, default) ==
    IF \A i \in 1..Len(table) : HitsOf(table, i, text) = 0 THEN default
    ELSE table[CHOOSE i \in 1..Len(table) :
                  /\ \A j \in 1..Len(table) : HitsOf(table, j, text) <= HitsOf(table, i, text)
                  /\ \A j \in 1..(i - 1) : HitsOf(table, j, text) < HitsOf(table, i, text)].label

\* no keyword of the five analyzer tables occurs in the text
NoTableKeyword(text) ==
    \A table \in { domain_keywords, complexity_indicators, urgency_indicators,
                   audience_indicators, format_indicators } :
        \A i \in 1..Len(table) : HitsOf(table, i, text) = 0

\* C24: analyze_task on a task and context whose text contains none of the
\* table keywords returns domain "general", complexity "medium", urgency
\* "normal", audience "general" and output_format "text".
UnknownTextGetsDefaults ==
    ( probe.op = "analyze_task" /\ NoTableKeyword(probe.text) ) =>
        /\ probe.result.domain = "general"
        /\ probe.result.complexity = "medium"
        /\ probe.result.urgency = "normal"
        /\ probe.result.audience = "general"
        /\ probe.result.output_format = "text"

\* C25: for each of domain, complexity, urgency, audience and
\* output_format, analyze_task returns the label whose keyword group has
\* the highest number of keywords occurring in the text, and among labels
\* with equal non-zero counts the one registered first in the table.
HighestCountWins ==
    probe.op = "analyze_task" =>
        /\ (\E i \in 1..Len(domain_keywords) : HitsOf(domain_keywords, i, probe.text) > 0)
               => probe.result.domain
                      = HighestCountLabel(domain_keywords, probe.text, "general")
        /\ (\E i \in 1..Len(complexity_indicators) :
                HitsOf(complexity_indicators, i, probe.text) > 0)
               => probe.result.complexity
                      = HighestCountLabel(complexity_indicators, probe.text, "medium")
        /\ (\E i \in 1..Len(urgency_indicators) :
                HitsOf(urgency_indicators, i, probe.text) > 0)
               => probe.result.urgency
                      = HighestCountLabel(urgency_indicators, probe.text, "normal")
        /\ (\E i \in 1..Len(audience_indicators) :
                HitsOf(audience_indicators, i, probe.text) > 0)
               => probe.result.audience
                      = HighestCountLabel(audience_indicators, probe.text, "general")
        /\ (\E i \in 1..Len(format_indicators) :
                HitsOf(format_indicators, i, probe.text) > 0)
               => probe.result.output_format
                      = HighestCountLabel(format_indicators, probe.text, "text")

\* the classification rule on the text of a classify_task call
ClassifiedByHighestCount ==
    probe.op = "classify_task" =>
        /\ probe.result = "general"
               <=> \A i \in 1..Len(category_keywords) :
                       HitsOf(category_keywords, i, probe.text) = 0
        /\ probe.result = HighestCountLabel(category_keywords, probe.text, "general")

----------------------------------------------------------------------------
(* Two select_persona calls on one shared dispatcher, interleaved at the   *)
(* reads and writes of _log_persona_selection.  probe holds, per call, the *)
(* recommendation being logged, the position in the logging step and the   *)
(* values read so far.                                                     *)

Calls == { 1, 2 }

\* the two calls reach the logging step, each with its recommendation
StartCalls ==
    /\ probe.op = "none"
    /\ \E rec \in [ Calls -> [ persona_id : LogPersonas,
                               confidence_score : { 0, 12000 },
                               task_category : { "technical" } ] ] :
        probe' = [ op |-> "_log_persona_selection",
                   calls |-> [ c \in Calls |->
                                 [ pc |-> "append", recommendation |-> rec[c],
                                   usage_count |-> 0, avg_confidence |-> << 0, 1 >> ] ] ]
    /\ UNCHANGED << catalog, task_history, persona_usage_stats, feedback_history,
                    performance_metrics, auto_generation_enabled,
                    confidence_threshold, project_name, cache, now, last >>

\* call c is at position pc of the logging step
At(c, pc) == probe.op = "_log_persona_selection" /\ probe.calls[c].pc = pc

\* the frame of a step of the logging code
LogFrame ==
    UNCHANGED << catalog, feedback_history, performance_metrics,
                 auto_generation_enabled, confidence_threshold, project_name,
                 cache, now, last >>

\* self.task_history.append(log_entry)
AppendEntry(c) ==
    /\ At(c, "append")
    /\ task_history' =
           Append(task_history,
                  [ task_category |-> probe.calls[c].recommendation.task_category,
                    selected_persona |-> probe.calls[c].recommendation.persona_id,
                    confidence_score |-> probe.calls[c].recommendation.confidence_score,
                    domain |-> "technology" ])
    /\ probe' = [ probe EXCEPT !.calls[c].pc = "ensure" ]
    /\ UNCHANGED persona_usage_stats
    /\ LogFrame

\* if recommendation.persona_id not in self.persona_usage_stats: ... = {...}
EnsureStats(c) ==
    /\ At(c, "ensure")
    /\ persona_usage_stats' =
           IF probe.calls[c].recommendation.persona_id \in DOMAIN persona_usage_stats
           THEN persona_usage_stats
           ELSE (probe.calls[c].recommendation.persona_id :>
                     [ usage_count |-> 0, avg_confidence |-> << 0, 1 >>,
                       task_categories |-> <<>> ]) @@ persona_usage_stats
    /\ probe' = [ probe EXCEPT !.calls[c].pc = "read_count" ]
    /\ UNCHANGED task_history
    /\ LogFrame

\* stats["usage_count"] += 1: the load
ReadCount(c) ==
    /\ At(c, "read_count")
    /\ probe' = [ probe EXCEPT
                    !.calls[c].pc = "write_count",
                    !.calls[c].usage_count =
                        persona_usage_stats[probe.calls[c].recommendation.persona_id]
                            .usage_count ]
    /\ UNCHANGED << task_history, persona_usage_stats >>
    /\ LogFrame

\* an increment that adds two
Incremented_twice(usage_count) == usage_count + 2

\* stats["usage_count"] += 1: the value stored
Incremented(usage_count) == usage_count + 1

\* stats["usage_count"] += 1: the store
WriteCount(c) ==
    /\ At(c, "write_count")
    /\ persona_usage_stats' =
           [ persona_usage_stats EXCEPT
               ![probe.calls[c].recommendation.persona_id].usage_count =
                   Incremented(probe.calls[c].usage_count) ]
    /\ probe' = [ probe EXCEPT !.calls[c].pc = "read_avg" ]
    /\ UNCHANGED task_history
    /\ LogFrame

\* the right-hand side of stats["avg_confidence"] = (...) / stats["usage_count"]
ReadAverage(c) ==
    /\ At(c, "read_avg")
    /\ \E stats \in { persona_usage_stats[probe.calls[c].recommendation.persona_id] } :
        probe' = [ probe EXCEPT
                     !.calls[c].pc = "write_avg",
                     !.calls[c].avg_confidence =
                         Frac(stats.avg_confidence[1] * (stats.usage_count - 1)
                                  + probe.calls[c].recommendation.confidence_score
                                        * stats.avg_confidence[2],
                              stats.avg_confidence[2] * stats.usage_count) ]
    /\ UNCHANGED << task_history, persona_usage_stats >>
    /\ LogFrame

\* stats["avg_confidence"] = ...: the store
WriteAverage(c) ==
    /\ At(c, "write_avg")
    /\ persona_usage_stats' =
           [ persona_usage_stats EXCEPT
               ![probe.calls[c].recommendation.persona_id].avg_confidence =
                   probe.calls[c].avg_confidence ]
    /\ probe' = [ probe EXCEPT !.calls[c].pc = "category" ]
    /\ UNCHANGED task_history
    /\ LogFrame

\* the per-category counter, then the call returns
CountCategory(c) ==
    /\ At(c, "category")
    /\ \E p \in { probe.calls[c].recommendation.persona_id },
          category \in { probe.calls[c].recommendation.task_category } :
        persona_usage_stats' =
            [ persona_usage_stats EXCEPT
                ![p].task_categories =
                    IF category \in DOMAIN @ THEN [ @ EXCEPT ![category] = @ + 1 ]
                    ELSE (category :> 1) @@ @ ]
    /\ probe' = [ probe EXCEPT !.calls[c].pc = "done" ]
    /\ UNCHANGED task_history
    /\ LogFrame

RaceNext ==
    \/ StartCalls
    \/ \E c \in Calls : AppendEntry(c)
    \/ \E c \in Calls : EnsureStats(c)
    \/ \E c \in Calls : ReadCount(c)
    \/ \E c \in Calls : WriteCount(c)
    \/ \E c \in Calls : ReadAverage(c)
    \/ \E c \in Calls : WriteAverage(c)
    \/ \E c \in Calls : CountCategory(c)

SpecRace == LogInit /\ [][RaceNext]_vars

\* both calls have returned
AllDone == probe.op = "_log_persona_selection" /\ \A c \in Calls : probe.calls[c].pc = "done"

\* no usage_count is above the number of entries logged for its persona
CountNeverExceedsLog ==
    \A p \in DOMAIN persona_usage_stats :
        persona_usage_stats[p].usage_count <= Cardinality(LoggedFor(p))

\* C27: if two select_persona calls on one shared dispatcher interleave at
\* the granularity of the individual reads and writes of the logging step,
\* a state is reachable in which an update is lost (the state LostUpdate).
\* What holds in every interleaving: each store of usage_count writes the
\* value the call loaded earlier plus one, whatever was stored in between,
\* so that usage_count never exceeds the number of entries logged for the
\* persona, and falls short of it only by lost updates.
StaleIncrement ==
    /\ []CountNeverExceedsLog
    /\ [][ \A c \in Calls :
             ( At(c, "write_count") /\ probe'.calls[c].pc = "read_avg" ) =>
                 persona_usage_stats'[probe.calls[c].recommendation.persona_id].usage_count
                     = probe.calls[c].usage_count + 1 ]_vars

\* C27 case: both calls have returned and logged the same persona, and its
\* usage_count is below the number of task_history entries logged for it
LostUpdate ==
    /\ AllDone
    /\ \E p \in DOMAIN persona_usage_stats :
           /\ Cardinality(LoggedFor(p)) = 2
           /\ persona_usage_stats[p].usage_count = 1

\* C28: after select_persona has generated and persisted a persona, the
\* catalog holds that persona under the id the generator assigned to it, so
\* get_persona of that id returns the generated persona.
GeneratedStoredUnderItsId ==
    (/\ last.op = "select_persona"
     /\ last.outcome \in { "returned", "TypeError" }
     /\ last.generated_id # "") =>
        /\ get_persona(catalog, last.generated_id) # <<>>
        /\ get_persona(catalog, last.generated_id)[1].auto_generated

\* C29: the persona_data of a returned recommendation carries
\* auto_generated=true added by the dispatcher only if the selected persona
\* is the one generated during that call; a pre-existing catalog persona
\* that remains the winner is never stamped as auto-generated.
OnlyGeneratedIsStamped ==
    (/\ last.op = "select_persona"
     /\ last.outcome = "returned"
     /\ last.persona_data.auto_generated
     /\ ~get_persona(catalog, last.persona_id)[1].auto_generated) =>
        last.persona_id = last.generated_id

----------------------------------------------------------------------------
(* Selections made through the dispatcher and through the HTTP /select     *)
(* handler, with feedback, task completion and the analytics               *)

\* the /select handler: select_persona logs the recommendation it returns,
\* then the handler logs the same recommendation
HttpSelect ==
    /\ Len(task_history) + 2 <= MaxAnalyticsLog
    /\ \E persona_id \in LogPersonas, confidence_score \in LogScores,
          task_category \in LogCategories :
        \E entry \in { [ task_category |-> task_category,
                         selected_persona |-> persona_id,
                         confidence_score |-> confidence_score,
                         domain |-> "technology" ] } :
            /\ task_history' = Append(Append(task_history, entry), entry)
            /\ persona_usage_stats' =
                   UpdateUsage(UpdateUsage(persona_usage_stats, persona_id,
                                           confidence_score, task_category),
                               persona_id, confidence_score, task_category)
            /\ last' = [ op |-> "http_select", persona_id |-> persona_id ]
            /\ UNCHANGED << catalog, feedback_history, performance_metrics,
                            auto_generation_enabled, confidence_threshold,
                            project_name, cache, now, probe >>

TotalsNext ==
    \/ AnalyticsSelect
    \/ HttpSelect
    \/ AnalyticsFeedback
    \/ CompleteTaskWithContextUpdate
    \/ GetSelectionAnalytics

SpecTotals == LogInit /\ [][TotalsNext]_vars

\* total_selections as get_selection_analytics reports it
TotalSelections ==
    get_selection_analytics(task_history, performance_metrics,
                            feedback_history).total_selections

\* the sum of usage_count over the personas of a set
RECURSIVE UsageSum(_, _)
UsageSum(stats, personas) ==
    IF personas = {} THEN 0
    ELSE LET p == CHOOSE q \in personas : TRUE
         IN  stats[p].usage_count + UsageSum(stats, personas \ { p })

\* total_selections is the sum of the usage counts
TotalIsUsageSum ==
    TotalSelections = UsageSum(persona_usage_stats, DOMAIN persona_usage_stats)

\* C30: in every reachable state, total_selections reported by
\* get_selection_analytics equals the number of persona selections made
\* (it grows by one per returned select_persona call and by one per HTTP
\* /select request) and equals the sum of persona_usage_stats[*].usage_count;
\* operations other than a selection, such as
\* complete_task_with_context_update and record_feedback, do not change it.
TotalCountsSelections ==
    /\ []TotalIsUsageSum
    /\ [][ ( AnalyticsSelect \/ HttpSelect ) =>
             TotalSelections' = TotalSelections + 1 ]_vars
    /\ [][ ( AnalyticsFeedback \/ CompleteTaskWithContextUpdate
                 \/ GetSelectionAnalytics ) =>
             TotalSelections' = TotalSelections ]_vars

====
